---- MODULE Spec2Model ----
(***************************************************************************)
(* Outlier-Detection-in-Python: the detector classes of outlier_detection  *)
(* (base.py and the simple package) as a state machine.  One detector is   *)
(* constructed (Init); then its computation method and the two result      *)
(* accessors are called in any order.                                      *)
(*                                                                         *)
(* Numbers.  pandas computes in IEEE doubles; the model computes in exact  *)
(* rationals [n, d] with d >= 0, where d = 0 encodes the non-finite        *)
(* doubles a division can produce: 1/0 = +inf, -1/0 = -inf, 0/0 = NaN.     *)
(* Rounding error of the doubles is not modelled.                          *)
(***************************************************************************)
EXTENDS Integers, Sequences, FiniteSets, TLC

(***************************************************************************)
(* Bounds of the model.                                                    *)
(***************************************************************************)
MaxLen == 3
MaxVal == 2
MaxCalls == 2

(***************************************************************************)
(* Column names (outlier_detection/columns.py and the detector modules).   *)
(***************************************************************************)
NAME_DATA == "data"
NAME_OTHER == "other"
NAME_IS_OUTLIER == "is_outlier"
NAME_MEAN == "mean"
NAME_STD_DEV == "std_dev"
NAME_MEDIAN == "median"
NAME_ABS_DIFF == "abs_diff"
NAME_COUNT == "count"
NAME_PROBABILITY == "probability"
NAME_Z_SCORE == "z-score"
NAME_MAD == "mad"
NAME_MEDIAN_ABS_DIFF == "median_abs_diff"
NAME_KDE == "kde"
NAME_KNN == "knn"
NAME_CUM_SUM == "cum_sum"
NAME_MAD_SUM == "mad_sum"

(***************************************************************************)
(* Python's None and a set attribute.                                      *)
(***************************************************************************)
None == <<>>
Some(v) == <<v>>

(***************************************************************************)
(* Exact arithmetic standing for the doubles.                              *)
(***************************************************************************)
Abs(x) == IF x < 0 THEN -x ELSE x
Sgn(x) == IF x < 0 THEN -1 ELSE IF x > 0 THEN 1 ELSE 0

RECURSIVE GCD(_, _)
GCD(a, b) == IF b = 0 THEN a ELSE GCD(b, a % b)

Rat(n, d) ==
    IF d = 0 THEN [n |-> Sgn(n), d |-> 0]
    ELSE LET g == GCD(Abs(n), Abs(d))
             s == IF d < 0 THEN -1 ELSE 1
         IN  [n |-> s * (n \div g), d |-> s * (d \div g)]

R(x) == [n |-> x, d |-> 1]
NaN == [n |-> 0, d |-> 0]
Inf == [n |-> 1, d |-> 0]
NegInf == [n |-> -1, d |-> 0]
IsNaN(a) == a.d = 0 /\ a.n = 0
IsFinite(a) == a.d > 0

RNeg(a) == [n |-> -a.n, d |-> a.d]
RAdd(a, b) ==
    IF a.d > 0 /\ b.d > 0 THEN Rat(a.n * b.d + b.n * a.d, a.d * b.d)
    ELSE IF IsNaN(a) \/ IsNaN(b) THEN NaN
    ELSE IF a.d = 0 /\ b.d = 0 THEN (IF a.n = b.n THEN a ELSE NaN)
    ELSE IF a.d = 0 THEN a ELSE b
RSub(a, b) == RAdd(a, RNeg(b))
RMul(a, b) == Rat(a.n * b.n, a.d * b.d)
RDiv(a, b) ==
    IF b.n < 0 THEN Rat(-(a.n * b.d), -(a.d * b.n))
    ELSE Rat(a.n * b.d, a.d * b.n)
RAbs(a) == [n |-> Abs(a.n), d |-> a.d]

\* Comparisons of doubles: every comparison with NaN is false.
RLt(a, b) ==
    /\ ~IsNaN(a) /\ ~IsNaN(b)
    /\ IF a.d = 0 /\ b.d = 0 THEN a.n < b.n ELSE a.n * b.d < b.n * a.d
RLe(a, b) ==
    /\ ~IsNaN(a) /\ ~IsNaN(b)
    /\ IF a.d = 0 /\ b.d = 0 THEN a.n <= b.n ELSE a.n * b.d <= b.n * a.d
RGt(a, b) == RLt(b, a)
RGe(a, b) == RLe(b, a)

(***************************************************************************)
(* Sequence helpers.                                                       *)
(***************************************************************************)
Range(s) == {s[i] : i \in 1..Len(s)}

\* The function f on 1..n as a tuple, every element computed once.
Tup(f) == f \o <<>>

Map(s, Op(_)) == Tup([i \in 1..Len(s) |-> Op(s[i])])

RECURSIVE RSum(_)
RSum(s) == IF s = <<>> THEN R(0) ELSE RAdd(s[1], RSum(Tail(s)))

RECURSIVE SeqsUpTo(_, _)
SeqsUpTo(S, n) ==
    IF n = 0 THEN {<<>>}
    ELSE LET prev == SeqsUpTo(S, n - 1)
         IN  prev \cup {Append(s, x) : s \in {t \in prev : Len(t) = n - 1}, x \in S}

(***************************************************************************)
(* pandas: the Series reductions the detectors use.                        *)
(***************************************************************************)
\* Series.quantile(qn/qd): linear interpolation between order statistics.
Quantile(vals, qn, qd) ==
    LET s   == SortSeq(vals, RLt)
        p   == (Len(s) - 1) * qn
        lo  == p \div qd
        rem == p % qd
    IN  IF rem = 0 THEN s[lo + 1]
        ELSE RAdd(s[lo + 1], RMul(Rat(rem, qd), RSub(s[lo + 2], s[lo + 1])))

\* Series.median()
Median(vals) == Quantile(vals, 1, 2)

\* Series.mean()
Mean(vals) == RDiv(RSum(vals), R(Len(vals)))

(***************************************************************************)
(* The DataFrame self.data: its ordered column names and its rows, each    *)
(* row a function from column name to value.  Row i carries the index      *)
(* label i - 1 of pandas' RangeIndex.                                      *)
(***************************************************************************)
Column(self, name) == Tup([i \in 1..Len(self.data) |-> self.data[i][name]])
NumColumn(self, name) == Tup([i \in 1..Len(self.data) |-> R(self.data[i][name])])

\* pdf[name] = vals: overwrite the column, or append it as the last one.
SetColumn(self, name, vals) ==
    [self EXCEPT
       !.columns = IF name \in Range(self.columns) THEN self.columns
                   ELSE Append(self.columns, name),
       !.data = Tup([i \in 1..Len(self.data) |-> (name :> vals[i]) @@ self.data[i]])]

\* Boolean-mask selection df[mask]: the selected rows with their labels.
Indexed(rows) == Tup([i \in 1..Len(rows) |-> [index |-> i - 1, row |-> rows[i]]])
IsFlagged(e) == e.row[NAME_IS_OUTLIER]
IsNotFlagged(e) == ~e.row[NAME_IS_OUTLIER]

\* the whole selected row, not the NAME_DATA column of it
DataOf_WholeRow(e) ==
    [index |-> e.index, value |-> e.row[NAME_DATA], other |-> e.row[NAME_OTHER]]

\* filtered[NAME_DATA]: the label and the NAME_DATA value of a selected row
DataOf(e) == [index |-> e.index, value |-> e.row[NAME_DATA]]

(***************************************************************************)
(* base.py                                                                 *)
(***************************************************************************)
\* issubclass(type(data), cls), for argument classes none of which derives
\* from another.
IsSubclass(type, cls) == type = cls

\* The conditions under which the three __init__ of base.py build the dataset;
\* otherwise they raise TypeError before they assign anything.  types holds
\* the classes of the data arguments.
AcceptsDetection(types) == IsSubclass(types[1], "list")

AcceptsDetectionFullDataFrame(types) == IsSubclass(types[1], "DataFrame")

\* the pair check passing when one argument is a list
AcceptsDetectionPaired_Either(types) ==
    IsSubclass(types[1], "list") \/ IsSubclass(types[2], "list")

AcceptsDetectionPaired(types) ==
    IsSubclass(types[1], "list") /\ IsSubclass(types[2], "list")

\* Detection.__init__ with a list
Detection(data) ==
    [columns |-> <<NAME_DATA>>,
     data    |-> Tup([i \in 1..Len(data) |-> (NAME_DATA :> data[i])])]

Raise(e) == [err |-> e, value |-> <<>>]
Return(v) == [err |-> "none", value |-> v]

\* outliers without the check for the flag column
outliers_NoStateCheck(self) ==
    IF NAME_IS_OUTLIER \notin Range(self.columns) THEN Return(<<>>)
    ELSE Return(Map(SelectSeq(Indexed(self.data), IsFlagged), DataOf))

\* without_outliers with the mask of outliers (the negation dropped)
without_outliers_SameMask(self) ==
    IF NAME_IS_OUTLIER \notin Range(self.columns) THEN Raise("ValueError")
    ELSE Return(Map(SelectSeq(Indexed(self.data), IsFlagged), DataOf))

\* Detection.outliers
outliers(self) ==
    IF NAME_IS_OUTLIER \notin Range(self.columns) THEN Raise("ValueError")
    ELSE Return(Map(SelectSeq(Indexed(self.data), IsFlagged), DataOf))

\* Detection.without_outliers
without_outliers(self) ==
    IF NAME_IS_OUTLIER \notin Range(self.columns) THEN Raise("ValueError")
    ELSE Return(Map(SelectSeq(Indexed(self.data), IsNotFlagged), DataOf))

(***************************************************************************)
(* simple/one_dimension_numeric/iqr.py                                     *)
(***************************************************************************)
IQR(data, threshold) ==
    [columns |-> Detection(data).columns,
     data |-> Detection(data).data,
     threshold |-> threshold,
     iqr_lower_limit |-> None,
     iqr_upper_limit |-> None]

\* iqr with the limits themselves not flagged
iqr_Exclusive(self) ==
    LET x     == NumColumn(self, NAME_DATA)
        q1    == Quantile(x, 1, 4)
        q3    == Quantile(x, 3, 4)
        igr   == RSub(q3, q1)
        lower == RSub(q1, RMul(self.threshold, igr))
        upper == RAdd(q3, RMul(self.threshold, igr))
        flags == [i \in 1..Len(x) |-> RGt(x[i], upper) \/ RLt(x[i], lower)]
    IN  [SetColumn(self, NAME_IS_OUTLIER, flags) EXCEPT
           !.iqr_lower_limit = Some(lower),
           !.iqr_upper_limit = Some(upper)]

iqr(self) ==
    LET x     == NumColumn(self, NAME_DATA)
        q1    == Quantile(x, 1, 4)
        q3    == Quantile(x, 3, 4)
        igr   == RSub(q3, q1)
        lower == RSub(q1, RMul(self.threshold, igr))
        upper == RAdd(q3, RMul(self.threshold, igr))
        flags == [i \in 1..Len(x) |-> RGe(x[i], upper) \/ RLe(x[i], lower)]
    IN  [SetColumn(self, NAME_IS_OUTLIER, flags) EXCEPT
           !.iqr_lower_limit = Some(lower),
           !.iqr_upper_limit = Some(upper)]

(***************************************************************************)
(* simple/one_dimension_numeric/idr.py                                     *)
(***************************************************************************)
IDR(data, threshold) ==
    [columns |-> Detection(data).columns,
     data |-> Detection(data).data,
     threshold |-> threshold,
     iqr_lower_limit |-> None,
     iqr_upper_limit |-> None]

\* idr whose limits move towards the centre as the threshold grows
idr_LimitsInwards(self) ==
    LET x     == NumColumn(self, NAME_DATA)
        q1    == Quantile(x, 1, 10)
        q3    == Quantile(x, 9, 10)
        span  == RSub(q3, q1)
        lower == RAdd(q1, RMul(self.threshold, span))
        upper == RSub(q3, RMul(self.threshold, span))
        flags == [i \in 1..Len(x) |-> RGe(x[i], upper) \/ RLe(x[i], lower)]
    IN  [SetColumn(self, NAME_IS_OUTLIER, flags) EXCEPT
           !.iqr_lower_limit = Some(lower),
           !.iqr_upper_limit = Some(upper)]

idr(self) ==
    LET x     == NumColumn(self, NAME_DATA)
        q1    == Quantile(x, 1, 10)
        q3    == Quantile(x, 9, 10)
        span  == RSub(q3, q1)
        lower == RSub(q1, RMul(self.threshold, span))
        upper == RAdd(q3, RMul(self.threshold, span))
        flags == [i \in 1..Len(x) |-> RGe(x[i], upper) \/ RLe(x[i], lower)]
    IN  [SetColumn(self, NAME_IS_OUTLIER, flags) EXCEPT
           !.iqr_lower_limit = Some(lower),
           !.iqr_upper_limit = Some(upper)]

(***************************************************************************)
(* utils.py and simple/one_dimension_numeric/z_score.py                    *)
(*                                                                         *)
(* A standard deviation is a square root, so it and the z-scores are kept  *)
(* as surds [sgn, sq] standing for sgn * sqrt(sq), sq a rational; sq = NaN *)
(* is the double NaN.                                                      *)
(***************************************************************************)
Surd(sgn, sq) == [sgn |-> sgn, sq |-> sq]
SNeg(z) == [sgn |-> -z.sgn, sq |-> z.sq]

\* z >= t and z <= t for a surd z and a finite rational t
SGe(z, t) ==
    /\ ~IsNaN(z.sq)
    /\ IF t.n <= 0 THEN z.sgn >= 0 \/ RLe(z.sq, RMul(t, t))
       ELSE z.sgn > 0 /\ RGe(z.sq, RMul(t, t))
SLe(z, t) == SGe(SNeg(z), RNeg(t))

Square(a) == RMul(a, a)

\* the population variance: divisor n
Variance_Population(vals) ==
    LET m == Mean(vals)
    IN  RDiv(RSum(Tup([i \in 1..Len(vals) |-> Square(RSub(vals[i], m))])),
             R(Len(vals)))

\* Series.std(): ddof = 1
Variance(vals) ==
    LET m == Mean(vals)
    IN  RDiv(RSum(Tup([i \in 1..Len(vals) |-> Square(RSub(vals[i], m))])),
             R(Len(vals) - 1))

\* mean that adds its column anew on every call instead of assigning it
mean_Concat(self, in_col, out_col) ==
    LET m == Mean(NumColumn(self, in_col))
    IN  [self EXCEPT
           !.columns = Append(self.columns, out_col),
           !.data = Tup([i \in 1..Len(self.data) |-> (out_col :> m) @@ self.data[i]])]

\* utils.mean
mean(self, in_col, out_col) ==
    LET m == Mean(NumColumn(self, in_col))
    IN  SetColumn(self, out_col, [i \in 1..Len(self.data) |-> m])

\* utils.std_dev
std_dev(self, in_col, out_col) ==
    LET v == Variance(NumColumn(self, in_col))
    IN  SetColumn(self, out_col, [i \in 1..Len(self.data) |-> Surd(Sgn(v.n), v)])

\* abs_diff without .abs()
abs_diff_Signed(df, in_col_x, in_col_y, out_col) ==
    SetColumn(df, out_col,
              [i \in 1..Len(df.data) |-> df.data[i][in_col_x] - df.data[i][in_col_y]])

\* utils.abs_diff
abs_diff(df, in_col_x, in_col_y, out_col) ==
    SetColumn(df, out_col,
              [i \in 1..Len(df.data) |-> Abs(df.data[i][in_col_x] - df.data[i][in_col_y])])

\* utils.median
median(df, in_col, out_col) ==
    LET m == Median(NumColumn(df, in_col))
    IN  SetColumn(df, out_col, [i \in 1..Len(df.data) |-> m])

\* utils.quantile; value is the fraction n/d
quantile(df, in_col, value) == Quantile(NumColumn(df, in_col), value.n, value.d)

\* a score of 0 where the division gives NaN
ZScoreOf_ZeroForNaN(x, m, sd) ==
    LET diff == RSub(x, m)
        q    == RDiv(Square(diff), sd.sq)
    IN  Surd(Sgn(diff.n), IF IsNaN(q) THEN R(0) ELSE q)

\* (x - mean) / std
ZScoreOf(x, m, sd) ==
    LET diff == RSub(x, m)
    IN  Surd(Sgn(diff.n), RDiv(Square(diff), sd.sq))

Z_SCORE(data, threshold) ==
    [columns |-> Detection(data).columns,
     data |-> Detection(data).data,
     threshold |-> threshold]

z_score(self) ==
    LET pdf1  == mean(self, NAME_DATA, NAME_MEAN)
        pdf2  == std_dev(pdf1, NAME_DATA, NAME_STD_DEV)
        z     == Tup([i \in 1..Len(pdf2.data) |->
                        ZScoreOf(R(pdf2.data[i][NAME_DATA]), pdf2.data[i][NAME_MEAN],
                                 pdf2.data[i][NAME_STD_DEV])])
        pdf3  == SetColumn(pdf2, NAME_Z_SCORE, z)
        flags == [i \in 1..Len(z) |->
                    SGe(z[i], self.threshold) \/ SLe(z[i], RNeg(self.threshold))]
    IN  SetColumn(pdf3, NAME_IS_OUTLIER, flags)

(***************************************************************************)
(* simple/one_dimension_numeric/mad.py                                     *)
(***************************************************************************)
MAD(data, threshold) ==
    [columns |-> Detection(data).columns,
     data |-> Detection(data).data,
     threshold |-> threshold]

\* mad with a score equal to the threshold not flagged
mad_Exclusive(self) ==
    LET n     == Len(self.data)
        x     == NumColumn(self, NAME_DATA)
        med   == Median(x)
        pdf1  == SetColumn(self, NAME_MEDIAN, [i \in 1..n |-> med])
        ad    == Tup([i \in 1..n |-> RAbs(RSub(x[i], med))])
        pdf2  == SetColumn(pdf1, NAME_ABS_DIFF, ad)
        mad0  == Median(ad)
        pdf3  == SetColumn(pdf2, NAME_MEDIAN_ABS_DIFF, [i \in 1..n |-> mad0])
        score == Tup([i \in 1..n |-> RDiv(ad[i], mad0)])
        pdf4  == SetColumn(pdf3, NAME_MAD, score)
        flags == [i \in 1..n |-> RGt(score[i], self.threshold)]
    IN  SetColumn(pdf4, NAME_IS_OUTLIER, flags)

mad(self) ==
    LET n     == Len(self.data)
        x     == NumColumn(self, NAME_DATA)
        med   == Median(x)
        pdf1  == SetColumn(self, NAME_MEDIAN, [i \in 1..n |-> med])
        ad    == Tup([i \in 1..n |-> RAbs(RSub(x[i], med))])
        pdf2  == SetColumn(pdf1, NAME_ABS_DIFF, ad)
        mad0  == Median(ad)
        pdf3  == SetColumn(pdf2, NAME_MEDIAN_ABS_DIFF, [i \in 1..n |-> mad0])
        score == Tup([i \in 1..n |-> RDiv(ad[i], mad0)])
        pdf4  == SetColumn(pdf3, NAME_MAD, score)
        flags == [i \in 1..n |-> RGe(score[i], self.threshold)]
    IN  SetColumn(pdf4, NAME_IS_OUTLIER, flags)

(***************************************************************************)
(* simple/one_dimension_numeric/histogram.py                               *)
(***************************************************************************)
RECURSIVE SeqMin(_)
SeqMin(s) ==
    IF Len(s) = 1 THEN s[1]
    ELSE LET m == SeqMin(Tail(s)) IN IF s[1] < m THEN s[1] ELSE m
RECURSIVE SeqMax(_)
SeqMax(s) ==
    IF Len(s) = 1 THEN s[1]
    ELSE LET m == SeqMax(Tail(s)) IN IF s[1] > m THEN s[1] ELSE m

\* pd.cut(x, bins=b): b equal-width right-closed intervals over [min, max], the
\* first one widened to the left to take in min.  The bin of v, 1..b.  When
\* min = max pandas widens the range by 0.1% to both sides and v is its centre.
CutBin(v, mn, mx, b) ==
    IF mn = mx THEN (b + 1) \div 2
    ELSE CHOOSE i \in 1..b :
           /\ b * (v - mn) <= i * (mx - mn)
           /\ \A j \in 1..(i - 1) : b * (v - mn) > j * (mx - mn)

Histogram(data, bins) ==
    [columns |-> Detection(data).columns,
     data |-> Detection(data).data,
     bins |-> bins]

\* The module does not import pandas; the name pd is bound only by the block
\* under `if __name__ == "__main__"`, so in an imported module pd.cut raises.
histogram(self, globals) ==
    LET x           == Column(self, NAME_DATA)
        n           == Len(x)
        pdf_histo   == Tup([i \in 1..n |-> CutBin(x[i], SeqMin(x), SeqMax(x), self.bins)])
        counts      == [v \in 1..self.bins |-> Cardinality({i \in 1..n : pdf_histo[i] = v})]
        rare_ranges == {v \in 1..self.bins : counts[v] < self.bins}
    IN  IF "pd" \notin globals THEN [err |-> "NameError", self |-> self]
        ELSE [err |-> "none",
              self |-> SetColumn(self, NAME_IS_OUTLIER,
                                 [i \in 1..n |-> pdf_histo[i] \in rare_ranges])]

(***************************************************************************)
(* simple/one_dimension_numeric/knn.py                                     *)
(***************************************************************************)
KNN(data, k, threshold) ==
    [columns |-> Detection(data).columns,
     data |-> Detection(data).data,
     k |-> k,
     threshold |-> threshold,
     max_dist_arr |-> None]

IntLt(a, b) == a < b

\* query that returns one neighbour too few
Query_OneShort(x, i, k) ==
    SubSeq(SortSeq([j \in 1..Len(x) |-> Abs(x[i] - x[j])], IntLt), 1, k - 1)

\* BallTree.query(X, k): for the point at position i, the distances to its k
\* nearest points of X (itself among them), nearest first.
Query(x, i, k) ==
    SubSeq(SortSeq([j \in 1..Len(x) |-> Abs(x[i] - x[j])], IntLt), 1, k)

\* BallTree.query raises when k exceeds the number of points.
QueryRaises(x, k) == k > Len(x)

\* knn with the flag column initialised before the neighbor query
knn_FlagsBeforeQuery(self) ==
    LET x     == Column(self, NAME_DATA)
        pdf0  == SetColumn(self, NAME_IS_OUTLIER, [i \in 1..Len(x) |-> FALSE])
        dist  == [i \in 1..Len(x) |-> Query(x, i, self.k + 1)]
        score == Tup([i \in 1..Len(x) |-> R(SeqMax(dist[i]))])
        pdf1  == SetColumn(self, NAME_KNN, score)
        flags == [i \in 1..Len(x) |-> RGt(score[i], self.threshold)]
    IN  IF QueryRaises(x, self.k + 1) THEN [err |-> "QueryError", self |-> pdf0]
        ELSE [err |-> "none", self |-> SetColumn(pdf1, NAME_IS_OUTLIER, flags)]

knn(self) ==
    LET x     == Column(self, NAME_DATA)
        dist  == [i \in 1..Len(x) |-> Query(x, i, self.k + 1)]
        score == Tup([i \in 1..Len(x) |-> R(SeqMax(dist[i]))])
        pdf1  == SetColumn(self, NAME_KNN, score)
        flags == [i \in 1..Len(x) |-> RGt(score[i], self.threshold)]
    IN  IF QueryRaises(x, self.k + 1) THEN [err |-> "QueryError", self |-> self]
        ELSE [err |-> "none", self |-> SetColumn(pdf1, NAME_IS_OUTLIER, flags)]

(***************************************************************************)
(* simple/one_dimension_numeric/kde.py                                     *)
(***************************************************************************)
KDE(data) ==
    [columns |-> Detection(data).columns,
     data |-> Detection(data).data,
     q |-> None]

IQR_DEFAULT_THRESHOLD == Rat(11, 5)

\* pdf.loc[index, NAME_IS_OUTLIER] = True for every index label of a Series
Labels(series) == {series[i].index : i \in 1..Len(series)}

\* kde_scores is what KernelDensity(...).fit(X).score_samples(X) returns.  The
\* module does not import pandas; the name pd is bound only by the block under
\* `if __name__ == "__main__"`, so in an imported module pd.Series raises.
kde(self, globals, kde_scores) ==
    LET n    == Len(self.data)
        pdf1 == SetColumn(self, NAME_KDE, [i \in 1..n |-> R(kde_scores[i])])
        q    == iqr(IQR(kde_scores, IQR_DEFAULT_THRESHOLD))
        rare_values == outliers(q).value
        pdf2 == SetColumn(pdf1, NAME_IS_OUTLIER, [i \in 1..n |-> FALSE])
        pdf3 == SetColumn(pdf2, NAME_IS_OUTLIER,
                          [i \in 1..n |-> (i - 1) \in Labels(rare_values)])
    IN  IF "pd" \notin globals THEN [err |-> "NameError", self |-> self]
        ELSE [err |-> "none", self |-> [pdf3 EXCEPT !.q = Some(q)]]

(***************************************************************************)
(* pandas: DataFrame.merge(right, on=keys, how="inner") and                *)
(* DataFrame.drop_duplicates().  A frame is [columns, data].  The result   *)
(* keeps the order of the left rows; a column both frames have outside the *)
(* keys is renamed with the suffixes _x (left) and _y (right); the result  *)
(* has a fresh RangeIndex.                                                 *)
(***************************************************************************)
Frame(self) == [columns |-> self.columns, data |-> self.data]

Merge(left, right, keys) ==
    LET overlap  == (Range(left.columns) \cap Range(right.columns)) \ keys
        LName(c) == IF c \in overlap THEN c \o "_x" ELSE c
        RName(c) == IF c \in overlap THEN c \o "_y" ELSE c
        rest     == SelectSeq(right.columns, LAMBDA c : c \notin keys)
        Join(l, r) ==
            [c \in {LName(lc) : lc \in Range(left.columns)} |->
               l[CHOOSE lc \in Range(left.columns) : LName(lc) = c]] @@
            [c \in {RName(rc) : rc \in Range(rest)} |->
               r[CHOOSE rc \in Range(rest) : RName(rc) = c]]
        Matches(l) ==
            LET hit == SelectSeq(right.data, LAMBDA r : \A k \in keys : r[k] = l[k])
            IN  Tup([i \in 1..Len(hit) |-> Join(l, hit[i])])
        RECURSIVE Rows(_, _)
        Rows(lo, hi) ==
            IF lo > hi THEN <<>>
            ELSE IF lo = hi THEN Matches(left.data[lo])
            ELSE Rows(lo, (lo + hi) \div 2) \o Rows(((lo + hi) \div 2) + 1, hi)
    IN  [columns |-> [i \in 1..Len(left.columns) |-> LName(left.columns[i])] \o
                     [i \in 1..Len(rest) |-> RName(rest[i])],
         data    |-> Rows(1, Len(left.data))]

\* drop_duplicates that keeps every row
DropDuplicates_KeepAll(rows) == rows

\* keep="first": a row stays unless an equal row precedes it
DropDuplicates(rows) ==
    LET first == SelectSeq([i \in 1..Len(rows) |-> i],
                           LAMBDA i : \A j \in 1..(i - 1) : rows[j] # rows[i])
    IN  Tup([k \in 1..Len(first) |-> rows[first[k]]])

\* Series.unique(): the distinct values in order of first appearance
Unique(s) == DropDuplicates(s)

(***************************************************************************)
(* simple/one_dimension_categorial/one_dimension_categorial.py             *)
(***************************************************************************)
OneDimCategorial(data, threshold) ==
    [columns |-> Detection(data).columns,
     data |-> Detection(data).data,
     threshold |-> threshold,
     cumm_frac |-> None]

CountOf(col, v) == Cardinality({i \in 1..Len(col) : col[i] = v})

\* a sort that puts categories of equal count in the order of their first
\* appearance in the column
Rankings_FirstAppearance(col) ==
    LET cats == Range(col)
        n    == Cardinality(cats)
        First(c) == CHOOSE i \in 1..Len(col) : col[i] = c /\ \A j \in 1..(i - 1) : col[j] # c
    IN  {r \in [1..n -> cats] :
           /\ \A i, j \in 1..n : i # j => r[i] # r[j]
           /\ \A i, j \in 1..n : i < j =>
                 \/ CountOf(col, r[i]) < CountOf(col, r[j])
                 \/ CountOf(col, r[i]) = CountOf(col, r[j]) /\ First(r[i]) < First(r[j])}

\* value_counts().sort_values(): the categories in ascending order of their
\* counts.  The sort is not stable, so categories of equal count come in any
\* order.
Rankings(col) ==
    LET cats == Range(col)
        n    == Cardinality(cats)
    IN  {r \in [1..n -> cats] :
           /\ \A i, j \in 1..n : i # j => r[i] # r[j]
           /\ \A i, j \in 1..n : i < j => CountOf(col, r[i]) <= CountOf(col, r[j])}

\* the counts themselves, not accumulated
CumSum_Counts(s) == s

\* np.cumsum
RECURSIVE CumSum(_)
CumSum(s) ==
    IF s = <<>> THEN <<>>
    ELSE LET front == CumSum(SubSeq(s, 1, Len(s) - 1))
         IN  Append(front, s[Len(s)] + (IF front = <<>> THEN 0 ELSE front[Len(front)]))

\* cum_sum with a cumulative fraction equal to the threshold flagged too
cum_sum_Inclusive(self, vc) ==
    LET col       == Column(self, NAME_DATA)
        sums      == CumSum([i \in 1..Len(vc) |-> CountOf(col, vc[i])])
        cumm_frac == [columns |-> <<NAME_CUM_SUM, NAME_DATA>>,
                      data |-> Tup([i \in 1..Len(vc) |->
                                      (NAME_CUM_SUM :> Rat(sums[i], Len(col))) @@
                                      (NAME_DATA :> vc[i])])]
        self1     == [self EXCEPT !.cumm_frac = Some(cumm_frac)]
        pdf       == Merge(Frame(self), cumm_frac, {NAME_DATA})
    IN  IF NAME_CUM_SUM \notin Range(pdf.columns)
        THEN [err |-> "KeyError", self |-> self1]
        ELSE LET flags == Tup([i \in 1..Len(pdf.data) |->
                                 RLe(pdf.data[i][NAME_CUM_SUM], self.threshold)])
                 pdf1  == SetColumn(pdf, NAME_IS_OUTLIER, flags)
             IN  [err |-> "none",
                  self |-> [self1 EXCEPT !.columns = pdf1.columns, !.data = pdf1.data]]

\* vc is the sorted value_counts(): the ranking of the categories.
cum_sum(self, vc) ==
    LET col       == Column(self, NAME_DATA)
        sums      == CumSum([i \in 1..Len(vc) |-> CountOf(col, vc[i])])
        cumm_frac == [columns |-> <<NAME_CUM_SUM, NAME_DATA>>,
                      data |-> Tup([i \in 1..Len(vc) |->
                                      (NAME_CUM_SUM :> Rat(sums[i], Len(col))) @@
                                      (NAME_DATA :> vc[i])])]
        self1     == [self EXCEPT !.cumm_frac = Some(cumm_frac)]
        pdf       == Merge(Frame(self), cumm_frac, {NAME_DATA})
    IN  IF NAME_CUM_SUM \notin Range(pdf.columns)
        THEN [err |-> "KeyError", self |-> self1]
        ELSE LET flags == Tup([i \in 1..Len(pdf.data) |->
                                 RLt(pdf.data[i][NAME_CUM_SUM], self.threshold)])
                 pdf1  == SetColumn(pdf, NAME_IS_OUTLIER, flags)
             IN  [err |-> "none",
                  self |-> [self1 EXCEPT !.columns = pdf1.columns, !.data = pdf1.data]]

(***************************************************************************)
(* base.py DetectionPaired and                                             *)
(* simple/multidimensional_outliers/categorial_x_categorial.py             *)
(***************************************************************************)
DetectionPaired(data, other_data) ==
    [columns |-> <<NAME_DATA, NAME_OTHER>>,
     data    |-> Tup([i \in 1..Len(data) |->
                        (NAME_DATA :> data[i]) @@ (NAME_OTHER :> other_data[i])])]

CategorialXCategorial(data, other_data, threshold_count, threshold_expectation) ==
    [columns |-> DetectionPaired(data, other_data).columns,
     data |-> DetectionPaired(data, other_data).data,
     threshold_count |-> threshold_count,
     threshold_expectation |-> threshold_expectation,
     data_count |-> None,
     data_prob |-> None,
     data_expect |-> None]

\* DataFrame.value_counts([NAME_DATA, NAME_OTHER]) of two categorical columns:
\* one count for every pair of categories, 0 for a pair no row has.
ValueCounts(self) ==
    [p \in Range(Column(self, NAME_DATA)) \X Range(Column(self, NAME_OTHER)) |->
       Cardinality({i \in 1..Len(self.data) :
                      /\ self.data[i][NAME_DATA] = p[1]
                      /\ self.data[i][NAME_OTHER] = p[2]})]

RECURSIVE SumOver(_, _)
SumOver(f, S) ==
    IF S = {} THEN 0
    ELSE LET x == CHOOSE y \in S : TRUE IN f[x] + SumOver(f, S \ {x})

\* A helper table: columns are the categories of NAME_DATA, the index those of
\* NAME_OTHER, cell[<<row, column>>] the entry.
_build_data_count(self, vc) ==
    [columns |-> Unique(Column(self, NAME_DATA)),
     index   |-> Unique(Column(self, NAME_OTHER)),
     cell    |-> [p \in Range(Column(self, NAME_OTHER)) \X Range(Column(self, NAME_DATA)) |->
                    vc[<<p[2], p[1]>>]]]

\* _build_data_prob that leaves the product of the two fractions unscaled
_build_data_prob_Unscaled(data_count, vc) ==
    LET rows  == Range(data_count.index)
        cols  == Range(data_count.columns)
        count == SumOver(data_count.cell, rows \X cols)
        RowSum(r) == SumOver([c \in cols |-> data_count.cell[<<r, c>>]], cols)
        ColSum(c) == SumOver([r \in rows |-> data_count.cell[<<r, c>>]], rows)
    IN  [data_count EXCEPT
           !.cell = [p \in rows \X cols |->
                       RMul(Rat(RowSum(p[1]), count), Rat(ColSum(p[2]), count))]]

_build_data_prob(data_count, vc) ==
    LET rows  == Range(data_count.index)
        cols  == Range(data_count.columns)
        count == SumOver(data_count.cell, rows \X cols)
        RowSum(r) == SumOver([c \in cols |-> data_count.cell[<<r, c>>]], cols)
        ColSum(c) == SumOver([r \in rows |-> data_count.cell[<<r, c>>]], rows)
    IN  [data_count EXCEPT
           !.cell = [p \in rows \X cols |->
                       RMul(RMul(Rat(RowSum(p[1]), count), Rat(ColSum(p[2]), count)),
                            R(count))]]

_build_data_expect(data_count, data_prob) ==
    [data_count EXCEPT
       !.cell = [p \in DOMAIN data_count.cell |->
                   RDiv(R(data_count.cell[p]), data_prob.cell[p])]]

\* table with the index as a column, melted: one row for every cell, column by
\* column.
Melt(table, value_name) ==
    LET nr == Len(table.index)
        nc == Len(table.columns)
    IN  [columns |-> <<NAME_OTHER, NAME_DATA, value_name>>,
         data |-> Tup([i \in 1..(nr * nc) |->
                         LET c == table.columns[((i - 1) \div nr) + 1]
                             r == table.index[((i - 1) % nr) + 1]
                         IN  (NAME_OTHER :> r) @@ (NAME_DATA :> c) @@
                             (value_name :> table.cell[<<r, c>>])])]

\* the flag with either condition sufficing
IsOutlierPair_Or(self, row) ==
    \/ row[NAME_COUNT] < self.threshold_count
    \/ RLt(row[NAME_PROBABILITY], self.threshold_expectation)

\* (pdf[NAME_COUNT] < threshold_count) & (pdf[NAME_PROBABILITY] < threshold_expectation)
IsOutlierPair(self, row) ==
    /\ row[NAME_COUNT] < self.threshold_count
    /\ RLt(row[NAME_PROBABILITY], self.threshold_expectation)

marginal_probabilities(self) ==
    LET vc          == ValueCounts(self)
        data_count  == _build_data_count(self, vc)
        data_prob   == _build_data_prob(data_count, vc)
        data_expect == _build_data_expect(data_count, data_prob)
        self1       == [self EXCEPT !.data_count = Some(data_count),
                                    !.data_prob = Some(data_prob),
                                    !.data_expect = Some(data_expect)]
        keys        == {NAME_DATA, NAME_OTHER}
        df_count    == Melt(data_count, NAME_COUNT)
        df_expect   == Melt(data_expect, NAME_PROBABILITY)
        pdf1        == Merge(Frame(self), df_count, keys)
        pdf2        == Merge(pdf1, df_expect, keys)
    IN  IF NAME_COUNT \notin Range(pdf2.columns) \/ NAME_PROBABILITY \notin Range(pdf2.columns)
        THEN [err |-> "KeyError", self |-> self1]
        ELSE LET flags == Tup([i \in 1..Len(pdf2.data) |-> IsOutlierPair(self, pdf2.data[i])])
                 pdf3  == SetColumn(pdf2, NAME_IS_OUTLIER, flags)
                 pdf4  == [pdf3 EXCEPT !.data = DropDuplicates(pdf3.data)]
                 new   == Merge(Frame(self), pdf4, keys)
             IN  [err |-> "none",
                  self |-> [self1 EXCEPT !.columns = new.columns, !.data = new.data]]

(***************************************************************************)
(* base.py DetectionFullDataFrame and                                      *)
(* simple/multidimensional_outliers/numerical_x_numerical.py               *)
(***************************************************************************)
\* DetectionFullDataFrame.__init__ with a table [columns, data]
DetectionFullDataFrame(data) == [columns |-> data.columns, data |-> data.data]

\* Which object self.data is bound to when __init__ returns: "caller", the
\* object the caller passed, or "own", an object the constructor made.
\* Detection.__init__ and DetectionPaired.__init__ build a DataFrame from the
\* list(s); DetectionFullDataFrame.__init__ binds the caller's table itself.
DetectionRef == "own"
DetectionPairedRef == "own"
DetectionFullDataFrameRef == "caller"

\* astype handing back the frame it was called on
astype_NoCopy(ref) == ref

\* DataFrame.astype(float) returns a new frame.
astype(ref) == "own"

\* NumericalFullDataFrame.__init__: self.data = self.data.astype(float)
NumericalFullDataFrameRef == astype(DetectionFullDataFrameRef)

\* DetectionFullDataFrame.outliers
outliers_full(self) ==
    IF NAME_IS_OUTLIER \notin Range(self.columns) THEN Raise("ValueError")
    ELSE Return(SelectSeq(Indexed(self.data), IsFlagged))

\* DetectionFullDataFrame.without_outliers
without_outliers_full(self) ==
    IF NAME_IS_OUTLIER \notin Range(self.columns) THEN Raise("ValueError")
    ELSE Return(SelectSeq(Indexed(self.data), IsNotFlagged))

NumericalFullDataFrame(data, threshold) ==
    [columns |-> DetectionFullDataFrame(data).columns,
     data |-> DetectionFullDataFrame(data).data,
     mad_scores |-> None,
     threshold |-> threshold]

MAD_DEFAULT_THRESHOLD == Rat(4, 1)

\* Series.to_list() of a column of self.data: floats, or for the flag column
\* Python bools, which compute as 1 and 0.
ToList(self, col_name) ==
    Tup([i \in 1..Len(self.data) |->
           IF col_name = NAME_IS_OUTLIER
           THEN (IF self.data[i][col_name] THEN 1 ELSE 0)
           ELSE self.data[i][col_name]])

_calc_mad(values) == Column(mad(MAD(values, MAD_DEFAULT_THRESHOLD)), NAME_MAD)

\* replace that maps +inf to 0.0 as well
Replace_InfToZero(x) ==
    IF IsNaN(x) THEN R(0) ELSE IF x = Inf THEN R(0) ELSE IF x = NegInf THEN R(0) ELSE x

\* mad_scores.replace({np.nan: 0.0, np.inf: 1.0, -np.inf: 0.0})
Replace(x) ==
    IF IsNaN(x) THEN R(0) ELSE IF x = Inf THEN R(1) ELSE IF x = NegInf THEN R(0) ELSE x

RECURSIVE RMin(_)
RMin(s) ==
    IF Len(s) = 1 THEN s[1]
    ELSE LET m == RMin(Tail(s)) IN IF RLt(s[1], m) THEN s[1] ELSE m
RECURSIVE RMax(_)
RMax(s) ==
    IF Len(s) = 1 THEN s[1]
    ELSE LET m == RMax(Tail(s)) IN IF RGt(s[1], m) THEN s[1] ELSE m

\* MinMaxScaler().fit_transform on one column: a zero range scales by 1.
MinMax(col) ==
    LET lo    == RMin(col)
        range == RSub(RMax(col), lo)
        scale == IF range = R(0) THEN R(1) ELSE RDiv(R(1), range)
    IN  Tup([i \in 1..Len(col) |-> RSub(RMul(col[i], scale), RMul(lo, scale))])

ScoreName(index) == NAME_MAD \o "_" \o ToString(index)

mad_sum(self) ==
    LET n      == Len(self.data)
        m      == Len(self.columns)
        raw    == Tup([c \in 1..m |-> _calc_mad(ToList(self, self.columns[c]))])
        scaled == Tup([c \in 1..m |-> MinMax(Tup([i \in 1..n |-> Replace(raw[c][i])]))])
        sums   == Tup([i \in 1..n |-> RSum(Tup([c \in 1..m |-> scaled[c][i]]))])
        mad_scores ==
            [columns |-> [c \in 1..m |-> ScoreName(c - 1)] \o <<NAME_MAD_SUM>>,
             data |-> Tup([i \in 1..n |->
                             [name \in {ScoreName(c - 1) : c \in 1..m} \cup {NAME_MAD_SUM} |->
                                IF name = NAME_MAD_SUM THEN sums[i]
                                ELSE scaled[CHOOSE c \in 1..m : ScoreName(c - 1) = name][i]]])]
        flags  == [i \in 1..n |-> RGt(sums[i], self.threshold)]
    IN  [SetColumn(self, NAME_IS_OUTLIER, flags) EXCEPT !.mad_scores = Some(mad_scores)]

(***************************************************************************)
(* State.                                                                  *)
(***************************************************************************)
VARIABLES
    kind,      \* the class of the detector instance
    caller,    \* the arguments the caller passed to the constructor
    argtypes,  \* the classes of these arguments
    dataref,   \* the object self.data is bound to: "caller" or "own"
    other,     \* the dataset of another instance made from the same arguments
    detector,  \* the instance: self.data (columns, data) and its attributes
    globals,   \* the names bound in the module of the detector's class
    lib,       \* what sklearn's KernelDensity returns for this data
    calls,     \* invocations of the computation method so far
    lastop,    \* the method called last
    err,       \* the exception the last call raised, or "none"
    result     \* what the last accessor call returned

vars ==
    <<kind, caller, argtypes, dataref, other, detector, globals, lib, calls, lastop, err,
      result>>

Values == 0..MaxVal
NumLists == SeqsUpTo(Values, MaxLen) \ {<<>>}

ScenarioNumeric == <<1, 2, 3, 4, 100>>
NumInputs == NumLists \cup {ScenarioNumeric}

Thresholds ==
    {Rat(-1, 1), Rat(0, 1), Rat(1, 2), Rat(1, 1), Rat(11, 5), Rat(4, 1)}
BinCounts == {2, 3}
NeighborCounts == {1, 2}

\* The log-densities sklearn returns: any values, equal at equal positions.
\* Where pd is unbound, kde raises before it asks for them, and one choice
\* stands for all.
MaxScore == 1
Densities(data) ==
    {s \in [1..Len(data) -> 0..MaxScore] :
       \A i, j \in 1..Len(data) : data[i] = data[j] => s[i] = s[j]}

\* The modules that import pandas at the top bind pd; histogram.py and kde.py
\* bind it only when run as a script; the other modules never use the name.
ImportsPandas ==
    {"KNN", "OneDimCategorial", "CategorialXCategorial", "NumericalFullDataFrame"}
BindsPandasAsScript == {"Histogram", "KDE"}

\* The classes an argument may have, and the argument lists of the kinds.
PyTypes == {"list", "tuple", "dict", "DataFrame"}
PairedKinds == {"CategorialXCategorial"}
FullKinds == {"NumericalFullDataFrame"}
ArgTypes(k) ==
    IF k \in PairedKinds THEN PyTypes \X PyTypes ELSE {<<t>> : t \in PyTypes}

\* Whether the __init__ of kind k gets past the check of its base class.
Accepts(k, types) ==
    IF k \in PairedKinds THEN AcceptsDetectionPaired(types)
    ELSE IF k \in FullKinds THEN AcceptsDetectionFullDataFrame(types)
    ELSE AcceptsDetection(types)

\* The constructor returned an instance.
Constructed == Accepts(kind, argtypes)

ModuleGlobals ==
    \/ globals = {"pd"} /\ kind \in ImportsPandas \cup BindsPandasAsScript
    \/ globals = {} /\ kind \notin ImportsPandas

\* The object the dataset of a new instance of kind k is bound to.
RefOf(k) ==
    IF k \in PairedKinds THEN DetectionPairedRef
    ELSE IF k \in FullKinds THEN NumericalFullDataFrameRef
    ELSE DetectionRef

InitCommon ==
    /\ argtypes \in ArgTypes(kind)
    /\ Accepts(kind, argtypes)
    /\ dataref = RefOf(kind)
    /\ other = Frame(detector)
    /\ ModuleGlobals
    /\ calls = 0
    /\ lastop = "__init__"
    /\ err = "none"
    /\ result = None

InitZ_SCORE ==
    /\ kind = "Z_SCORE"
    /\ caller \in NumInputs
    /\ \E t \in Thresholds : detector = Z_SCORE(caller, t)
    /\ lib = None
    /\ InitCommon

InitIQR ==
    /\ kind = "IQR"
    /\ caller \in NumInputs
    /\ \E t \in Thresholds : detector = IQR(caller, t)
    /\ lib = None
    /\ InitCommon

InitIDR ==
    /\ kind = "IDR"
    /\ caller \in NumInputs
    /\ \E t \in Thresholds : detector = IDR(caller, t)
    /\ lib = None
    /\ InitCommon

InitMAD ==
    /\ kind = "MAD"
    /\ caller \in NumInputs
    /\ \E t \in Thresholds : detector = MAD(caller, t)
    /\ lib = None
    /\ InitCommon

InitHistogram ==
    /\ kind = "Histogram"
    /\ caller \in NumInputs \cup {<<1, 1, 1, 1, 1, 100>>}
    /\ \E b \in BinCounts : detector = Histogram(caller, b)
    /\ lib = None
    /\ InitCommon

InitKNN ==
    /\ kind = "KNN"
    /\ caller \in NumInputs
    /\ \E k \in NeighborCounts, t \in Thresholds : detector = KNN(caller, k, t)
    /\ lib = None
    /\ InitCommon

ScenarioDensities == <<3, 4, 4, 3, -20>>

InitKDE ==
    /\ kind = "KDE"
    /\ \/ caller \in NumLists /\ lib \in Densities(caller)
       \/ caller = ScenarioNumeric /\ lib = ScenarioDensities
    /\ detector = KDE(caller)
    /\ InitCommon
    /\ globals = {} => lib = [i \in 1..Len(caller) |-> 0]

CatLists == SeqsUpTo({"A", "B", "C"}, MaxLen) \ {<<>>}
ScenarioCat == <<"A", "A", "A", "A", "B", "A", "A", "A", "A", "A">>
CatInputs == CatLists \cup {ScenarioCat, <<"A", "B", "C", "C", "C", "C", "C", "C", "C", "C">>}
CatThresholds == {Rat(0, 1), Rat(1, 20), Rat(3, 20), Rat(1, 2), Rat(1, 1)}

InitOneDimCategorial ==
    /\ kind = "OneDimCategorial"
    /\ caller \in CatInputs
    /\ \E t \in CatThresholds : detector = OneDimCategorial(caller, t)
    /\ lib = None
    /\ InitCommon

\* n copies of x
Times(x, n) == [i \in 1..n |-> x]

PairLists ==
    {<<[i \in 1..Len(s) |-> s[i][1]], [i \in 1..Len(s) |-> s[i][2]]>> :
       s \in SeqsUpTo({"X", "Y"} \X {"P", "Q"}, MaxLen) \ {<<>>}}
ScenarioPair ==
    <<Times("X", 10) \o Times("X", 5) \o Times("Y", 1) \o Times("Y", 100),
      Times("P", 10) \o Times("Q", 5) \o Times("P", 1) \o Times("Q", 100)>>
PairInputs == PairLists \cup {ScenarioPair}
CountThresholds == {1, 2, 1000}
ExpectationThresholds == {Rat(1, 2), Rat(1, 1), Rat(2, 1)}

InitCategorialXCategorial ==
    /\ kind = "CategorialXCategorial"
    /\ caller \in PairInputs
    /\ \E tc \in CountThresholds, te \in ExpectationThresholds :
          /\ caller = ScenarioPair => te = Rat(1, 2)
          /\ detector = CategorialXCategorial(caller[1], caller[2], tc, te)
    /\ lib = None
    /\ InitCommon

TableColumns == <<"a", "b">>
TableValues == [a |-> {0, 1, 4}, b |-> {0, 4}]
TableRows(cols) == {r \in [Range(cols) -> 0..4] : \A c \in Range(cols) : r[c] \in TableValues[c]}
TablesOf(cols, n) ==
    {[columns |-> cols, data |-> d] : d \in [1..n -> TableRows(cols)]}
Tables ==
    UNION {TablesOf(SubSeq(TableColumns, 1, m), n) :
             m \in 1..Len(TableColumns), n \in 1..MaxLen}
TableThresholds == {Rat(0, 1), Rat(1, 2), Rat(8, 1)}

InitNumericalFullDataFrame ==
    /\ kind = "NumericalFullDataFrame"
    /\ caller \in Tables
    /\ \E t \in TableThresholds : detector = NumericalFullDataFrame(caller, t)
    /\ lib = None
    /\ InitCommon

Kinds ==
    {"Z_SCORE", "IQR", "IDR", "MAD", "Histogram", "KNN", "KDE", "OneDimCategorial",
     "CategorialXCategorial", "NumericalFullDataFrame"}

\* The content of the arguments of a constructor call of kind k.
InputsOf(k) ==
    IF k \in PairedKinds THEN PairLists
    ELSE IF k \in FullKinds THEN Tables
    ELSE IF k = "OneDimCategorial" THEN CatLists
    ELSE NumLists

\* The constructor raised TypeError: there is no instance and no dataset.
InitTypeError ==
    /\ kind \in Kinds
    /\ argtypes \in ArgTypes(kind)
    /\ ~Accepts(kind, argtypes)
    /\ caller \in InputsOf(kind)
    /\ detector = None
    /\ dataref = "none"
    /\ other = None
    /\ lib = None
    /\ ModuleGlobals
    /\ calls = 0
    /\ lastop = "__init__"
    /\ err = "TypeError"
    /\ result = None

Init ==
    \/ InitTypeError
    \/ InitZ_SCORE
    \/ InitIQR
    \/ InitIDR
    \/ InitMAD
    \/ InitHistogram
    \/ InitKNN
    \/ InitKDE
    \/ InitOneDimCategorial
    \/ InitCategorialXCategorial
    \/ InitNumericalFullDataFrame

\* The computation method returns, leaving the instance as new.
\* A computation method writes into the object self.data is bound to: what
\* obj, an object outside the instance, holds once the dataset is that of new.
WrittenThrough(obj, new) == IF dataref = "caller" THEN Frame(new) ELSE obj

Compute(new) ==
    /\ Constructed
    /\ calls < MaxCalls
    /\ detector' = new
    /\ caller' = WrittenThrough(caller, new)
    /\ other' = WrittenThrough(other, new)
    /\ calls' = calls + 1
    /\ lastop' = "compute"
    /\ err' = "none"
    /\ UNCHANGED <<kind, argtypes, dataref, globals, lib, result>>

\* The computation method raises e, leaving the instance as partial.
ComputeRaises(e, partial) ==
    /\ Constructed
    /\ calls < MaxCalls
    /\ detector' = partial
    /\ caller' = WrittenThrough(caller, partial)
    /\ other' = WrittenThrough(other, partial)
    /\ calls' = calls + 1
    /\ lastop' = "compute"
    /\ err' = e
    /\ UNCHANGED <<kind, argtypes, dataref, globals, lib, result>>

\* The computation method ends as r says: it returns, or raises r.err.
Finish(r) ==
    /\ Constructed
    /\ IF r.err = "none" THEN Compute(r.self) ELSE ComputeRaises(r.err, r.self)

Call_z_score == kind = "Z_SCORE" /\ Compute(z_score(detector))
Call_iqr == kind = "IQR" /\ Compute(iqr(detector))
Call_idr == kind = "IDR" /\ Compute(idr(detector))
Call_mad == kind = "MAD" /\ Compute(mad(detector))
Call_histogram == kind = "Histogram" /\ Finish(histogram(detector, globals))
Call_kde == kind = "KDE" /\ Finish(kde(detector, globals, lib))
Call_knn == kind = "KNN" /\ Finish(knn(detector))

Call_cum_sum ==
    /\ kind = "OneDimCategorial"
    /\ Constructed
    /\ \E vc \in Rankings(Column(detector, NAME_DATA)) : Finish(cum_sum(detector, vc))
Call_marginal_probabilities ==
    /\ kind = "CategorialXCategorial"
    /\ Finish(marginal_probabilities(detector))
Call_mad_sum == kind = "NumericalFullDataFrame" /\ Compute(mad_sum(detector))

Read(op, r) ==
    /\ Constructed
    /\ lastop' = op
    /\ err' = r.err
    /\ result' = IF r.err = "none" THEN Some(r.value) ELSE result
    /\ UNCHANGED <<kind, caller, argtypes, dataref, other, detector, globals, lib, calls>>

Call_outliers ==
    /\ kind # "NumericalFullDataFrame"
    /\ Read("outliers", outliers(detector))
Call_without_outliers ==
    /\ kind # "NumericalFullDataFrame"
    /\ Read("without_outliers", without_outliers(detector))
Call_outliers_full ==
    /\ kind = "NumericalFullDataFrame"
    /\ Read("outliers", outliers_full(detector))
Call_without_outliers_full ==
    /\ kind = "NumericalFullDataFrame"
    /\ Read("without_outliers", without_outliers_full(detector))

Next ==
    \/ Call_z_score
    \/ Call_iqr
    \/ Call_idr
    \/ Call_mad
    \/ Call_histogram
    \/ Call_kde
    \/ Call_knn
    \/ Call_cum_sum
    \/ Call_marginal_probabilities
    \/ Call_mad_sum
    \/ Call_outliers
    \/ Call_without_outliers
    \/ Call_outliers_full
    \/ Call_without_outliers_full


(***************************************************************************)
(* The detector families on their own.                                     *)
(***************************************************************************)
NextAccessors == Call_outliers \/ Call_without_outliers

InitNumeric ==
    \/ InitZ_SCORE
    \/ InitIQR
    \/ InitIDR
    \/ InitMAD
    \/ InitHistogram
    \/ InitKNN
    \/ InitKDE
NextNumeric ==
    \/ Call_z_score
    \/ Call_iqr
    \/ Call_idr
    \/ Call_mad
    \/ Call_histogram
    \/ Call_kde
    \/ Call_knn
    \/ NextAccessors
SpecNumeric == InitNumeric /\ [][NextNumeric]_vars

SpecZ_SCORE == InitZ_SCORE /\ [][Call_z_score \/ NextAccessors]_vars
SpecIQR == InitIQR /\ [][Call_iqr \/ NextAccessors]_vars
SpecIDR == InitIDR /\ [][Call_idr \/ NextAccessors]_vars
SpecMAD == InitMAD /\ [][Call_mad \/ NextAccessors]_vars

InitCategorial == InitOneDimCategorial \/ InitCategorialXCategorial
NextCategorial == Call_cum_sum \/ Call_marginal_probabilities \/ NextAccessors
SpecCategorial == InitCategorial /\ [][NextCategorial]_vars

SpecPair ==
    InitCategorialXCategorial /\ [][Call_marginal_probabilities \/ NextAccessors]_vars

NextTable == Call_mad_sum \/ Call_outliers_full \/ Call_without_outliers_full
SpecTable == InitNumericalFullDataFrame /\ [][NextTable]_vars

(***************************************************************************)
(* Properties.                                                             *)
(***************************************************************************)
HasFlags == Constructed /\ NAME_IS_OUTLIER \in Range(detector.columns)
Accessors == {"outliers", "without_outliers"}

\* The dataset as the constructor leaves it.
ConstructedFrame ==
    IF kind = "NumericalFullDataFrame" THEN DetectionFullDataFrame(caller)
    ELSE IF kind = "CategorialXCategorial" THEN DetectionPaired(caller[1], caller[2])
    ELSE Detection(caller)

\* C1: for every detector, reading outliers or without_outliers before the
\* computation method has been invoked fails with the state error
\* (ValueError) and returns nothing, and the dataset is still the one the
\* constructor made: no flag column, no derived column, the same records.
C1_StateErrorBeforeCompute ==
    (calls = 0 /\ lastop \in Accessors) =>
        /\ err = "ValueError"
        /\ result = None
        /\ Frame(detector) = ConstructedFrame
        /\ ~HasFlags

C1_Witness ==
    /\ calls = 0
    /\ lastop = "without_outliers"
    /\ err = "ValueError"
    /\ kind = "NumericalFullDataFrame"

\* What the two accessors return in the current state.
Flagged ==
    IF kind = "NumericalFullDataFrame" THEN outliers_full(detector).value
    ELSE outliers(detector).value
Unflagged ==
    IF kind = "NumericalFullDataFrame" THEN without_outliers_full(detector).value
    ELSE without_outliers(detector).value

\* The record the caller supplied at position i + 1 is the one e was read from.
IsOriginal(e) ==
    IF kind = "NumericalFullDataFrame"
    THEN \A c \in Range(caller.columns) : e.row[c] = caller.data[e.index + 1][c]
    ELSE IF kind = "CategorialXCategorial" THEN e.value = caller[1][e.index + 1]
    ELSE e.value = caller[e.index + 1]

Ascending(part) ==
    \A i, j \in 1..Len(part) : i < j => part[i].index < part[j].index

\* C2: once the computation method of any detector has completed, every
\* record is in exactly one of outliers and without_outliers, each partition
\* lists its records in the original order, and together they hold every
\* original record exactly once.
C2_Partition ==
    HasFlags =>
        /\ Ascending(Flagged) /\ Ascending(Unflagged)
        /\ Labels(Flagged) \cap Labels(Unflagged) = {}
        /\ Labels(Flagged) \cup Labels(Unflagged) = 0..(Len(ConstructedFrame.data) - 1)
        /\ \A i \in 1..Len(Flagged) : IsOriginal(Flagged[i])
        /\ \A i \in 1..Len(Unflagged) : IsOriginal(Unflagged[i])

C2_Witness ==
    /\ kind = "CategorialXCategorial"
    /\ HasFlags
    /\ lastop = "without_outliers"
    /\ Len(Flagged) > 0
    /\ Len(Unflagged) > 1

CategorialKinds == {"OneDimCategorial", "CategorialXCategorial"}
NumericKinds == {"Z_SCORE", "IQR", "IDR", "MAD", "Histogram", "KNN", "KDE"}
FlagsOf(self) == Column(self, NAME_IS_OUTLIER)

\* C3: for the categorical detectors (cumulative frequency, pair) a second
\* invocation of the computation method on the same instance succeeds,
\* leaves the flag column with the values of the first invocation and
\* appends no duplicate derived column.
C3_SecondInvocationSucceeds ==
    [][(kind \in CategorialKinds /\ calls = 1 /\ calls' = 2) =>
          /\ err' = "none"
          /\ detector'.columns = detector.columns
          /\ FlagsOf(detector') = FlagsOf(detector)]_vars

\* C4: a second invocation of mad_sum on the same instance produces the
\* scores, aggregates and flags of the first, and the scored columns are
\* the original data columns: no score column is added for the flag column.
C4_MadSumIdempotent ==
    [][(kind = "NumericalFullDataFrame" /\ calls = 1 /\ calls' = 2) =>
          /\ detector'.mad_scores = detector.mad_scores
          /\ FlagsOf(detector') = FlagsOf(detector)
          /\ Len(detector'.mad_scores[1].columns) = Len(caller.columns) + 1]_vars

\* C5: for Z-score, IQR, IDR, MAD, Histogram, KNN and KDE a second
\* invocation of the computation method on the same instance leaves the
\* flags, the derived columns and the stored bounds as the first invocation
\* made them and adds no column.
C5_NumericIdempotent ==
    [][(kind \in NumericKinds /\ calls >= 1 /\ calls' = calls + 1) =>
          /\ detector'.columns = detector.columns
          /\ detector'.data = detector.data
          /\ detector' = detector
          /\ (HasFlags => err' = "none")]_vars

C5_Witness ==
    /\ kind = "Z_SCORE"
    /\ calls = 2
    /\ lastop = "compute"
    /\ HasFlags
    /\ Len(Flagged) > 0
    /\ Len(Unflagged) > 0

\* The k-th smallest of the rationals x, counting repetitions (k in 1..Len(x)).
OrderStatistic(x, k) ==
    CHOOSE v \in Range(x) :
        /\ Cardinality({i \in 1..Len(x) : RLt(x[i], v)}) < k
        /\ k <= Cardinality({i \in 1..Len(x) : RLe(x[i], v)})

\* The pn/pd quantile of x by linear interpolation between order statistics.
Percentile(x, pn, pd) ==
    LET n    == Len(x)
        h    == (n - 1) * pn
        k    == (h \div pd) + 1
        a    == OrderStatistic(x, k)
        b    == OrderStatistic(x, IF k < n THEN k + 1 ELSE n)
    IN  RAdd(a, RMul(Rat(h % pd, pd), RSub(b, a)))

Given == Tup([i \in 1..Len(caller) |-> R(caller[i])])
FlaggedAt(i) == detector.data[i][NAME_IS_OUTLIER]

\* C6: IDR flags a record iff x <= lower or x >= upper, where
\* lower = Q1 - threshold * (D9 - D1) and upper = Q3 + threshold * (D9 - D1),
\* D1 and D9 the 10th and 90th percentiles (the span only), Q1 and Q3 the
\* 25th and 75th percentiles (the shift); the stored limits are these values.
C6_IDRRule ==
    (kind = "IDR" /\ HasFlags) =>
        LET span  == RSub(Percentile(Given, 9, 10), Percentile(Given, 1, 10))
            lower == RSub(Percentile(Given, 1, 4), RMul(detector.threshold, span))
            upper == RAdd(Percentile(Given, 3, 4), RMul(detector.threshold, span))
        IN  /\ detector.iqr_lower_limit = Some(lower)
            /\ detector.iqr_upper_limit = Some(upper)
            /\ \A i \in 1..Len(Given) :
                  FlaggedAt(i) <=> (RLe(Given[i], lower) \/ RGe(Given[i], upper))

SumOfSeq(x) == RSum(Tup([i \in 1..Len(x) |-> R(x[i])])).n

\* The square of (x[i] - mean) / s, s the sample standard deviation with
\* divisor n - 1, in integers: (n x[i] - S)^2 (n - 1) / (n (n Q - S^2)) with
\* S the sum and Q the sum of squares; 0/0 (one record, or all equal) is NaN.
SquaredScore(x, i) ==
    LET n == Len(x)
        S == SumOfSeq(x)
        Q == SumOfSeq([j \in 1..n |-> x[j] * x[j]])
    IN  Rat((n * x[i] - S) * (n * x[i] - S) * (n - 1), n * (n * Q - S * S))

\* |score| >= t for a score given by its square
AbsGe(sq, t) == ~IsNaN(sq) /\ (t.n <= 0 \/ RGe(sq, RMul(t, t)))

PairsWith(S) == Cardinality({i \in 1..Len(caller[1]) : <<caller[1][i], caller[2][i]>> \in S})
Categories(k) == Range(caller[k])

\* C10: the pair detector flags a record iff its combination (r, c) has both
\* count[r][c] < threshold_count and
\* count[r][c] / (rowSum(r) * colSum(c) / N) < threshold_expectation; for
\* (X,P) x 10, (X,Q) x 5, (Y,P) x 1, (Y,Q) x 100 with threshold_count = 2 and
\* threshold_expectation = 0.5 only the one (Y,P) record is flagged.
C10_PairRule ==
    (kind = "CategorialXCategorial" /\ HasFlags) =>
        /\ \A i \in 1..Len(caller[1]) :
              LET c      == caller[1][i]
                  r      == caller[2][i]
                  count  == PairsWith({<<c, r>>})
                  rowSum == PairsWith(Categories(1) \X {r})
                  colSum == PairsWith({c} \X Categories(2))
                  N      == Len(caller[1])
              IN  FlaggedAt(i) <=>
                      /\ count < detector.threshold_count
                      /\ RLt(RDiv(R(count), RDiv(R(rowSum * colSum), R(N))),
                             detector.threshold_expectation)
        /\ (/\ caller = ScenarioPair
            /\ detector.threshold_count = 2
            /\ detector.threshold_expectation = Rat(1, 2)) =>
               /\ Labels(Flagged) = {15}
               /\ <<caller[1][16], caller[2][16]>> = <<"Y", "P">>

C10_Witness ==
    /\ kind = "CategorialXCategorial"
    /\ HasFlags
    /\ caller = ScenarioPair
    /\ detector.threshold_count = 2
    /\ detector.threshold_expectation = Rat(1, 2)
    /\ lastop = "outliers"
    /\ result = Some(<<[index |-> 15, value |-> "Y"]>>)

SpecOneDimCategorial ==
    InitOneDimCategorial /\ [][Call_cum_sum \/ NextAccessors]_vars

\* How many of the caller's records are of a category in S.
Occurrences(S) == Cardinality({i \in 1..Len(caller) : caller[i] \in S})

\* C11: the cumulative-mass detector orders the categories ascending by
\* occurrence count, gives each the cumulative fraction (sum of the counts
\* up to and including it) / (record count), and flags a record iff the
\* cumulative fraction of its category is strictly less than threshold; for
\* nine "A" and one "B" with threshold 0.15 exactly the "B" record is flagged.
C11_CumSumRule ==
    (kind = "OneDimCategorial" /\ HasFlags) =>
        LET N == Len(caller)
            \* the cumulative fraction the records of category c carry
            f(c) == detector.data[CHOOSE i \in 1..N : caller[i] = c][NAME_CUM_SUM]
            cats == Range(caller)
        IN  /\ \A i \in 1..N : detector.data[i][NAME_CUM_SUM] = f(caller[i])
            /\ \A c, d \in cats : c # d => f(c) # f(d)
            /\ \A c, d \in cats : RLt(f(d), f(c)) => Occurrences({d}) <= Occurrences({c})
            /\ \A c \in cats : f(c) = Rat(Occurrences({d \in cats : RLe(f(d), f(c))}), N)
            /\ \A i \in 1..N : FlaggedAt(i) <=> RLt(f(caller[i]), detector.threshold)
            /\ (caller = ScenarioCat /\ detector.threshold = Rat(3, 20)) =>
                   Flagged = <<[index |-> 4, value |-> "B"]>>

C11_Witness ==
    /\ kind = "OneDimCategorial"
    /\ HasFlags
    /\ caller = ScenarioCat
    /\ detector.threshold = Rat(3, 20)
    /\ lastop = "outliers"
    /\ result = Some(<<[index |-> 4, value |-> "B"]>>)

\* The caller's table column c as rationals.
GivenColumn(c) == Tup([i \in 1..Len(caller.data) |-> R(caller.data[i][c])])

\* The MAD score of every entry of the column x: |x - median| / median of
\* the deviations, medians from order statistics.
ColumnScore(x) ==
    LET med == Percentile(x, 1, 2)
        dev == Tup([i \in 1..Len(x) |-> RAbs(RSub(x[i], med))])
    IN  Tup([i \in 1..Len(x) |-> RDiv(dev[i], Percentile(dev, 1, 2))])

\* NaN and -inf count as 0, +inf as 1.
Finite(v) == IF IsNaN(v) \/ v = NegInf THEN R(0) ELSE IF v = Inf THEN R(1) ELSE v

\* The column x scaled to [0, 1] by its own minimum and maximum; a constant
\* column scales to 0.
Normalized(x) ==
    LET lo == CHOOSE v \in Range(x) : \A w \in Range(x) : RLe(v, w)
        hi == CHOOSE v \in Range(x) : \A w \in Range(x) : RGe(v, w)
    IN  Tup([i \in 1..Len(x) |->
               IF lo = hi THEN R(0) ELSE RDiv(RSub(x[i], lo), RSub(hi, lo))])

\* What column c contributes to the aggregate of each row.
Contribution(c) ==
    LET score == ColumnScore(GivenColumn(c))
    IN  Normalized(Tup([i \in 1..Len(score) |-> Finite(score[i])]))

RECURSIVE Aggregate(_, _)
Aggregate(cols, i) ==
    IF cols = <<>> THEN R(0)
    ELSE RAdd(Contribution(Head(cols))[i], Aggregate(Tail(cols), i))

\* C12: the multivariate detector flags a row iff the sum over all columns
\* of the column's min-max-normalized MAD score for the row is strictly
\* greater than threshold, every column scored and normalized on its own.
C12_MadSumRule ==
    (kind = "NumericalFullDataFrame" /\ HasFlags) =>
        \A i \in 1..Len(caller.data) :
            FlaggedAt(i) <=> RGt(Aggregate(caller.columns, i), detector.threshold)

\* the same for the state the first invocation leaves
MadSumRuleAfterFirstInvocation == calls = 1 => C12_MadSumRule

SpecHistogram == InitHistogram /\ [][Call_histogram \/ NextAccessors]_vars

\* The bin of the value v when [lo, hi] is split into b bins of equal width,
\* each closed to the right, the first one taking lo as well; a range of
\* width 0 puts all values into one bin.
BinOf(v, lo, hi, b) ==
    IF lo = hi THEN 1
    ELSE IF v = lo THEN 1
    ELSE CHOOSE k \in 1..b :
           /\ (k - 1) * (hi - lo) < (v - lo) * b
           /\ (v - lo) * b <= k * (hi - lo)

\* How many records share the bin of record i.
BinSize(i) ==
    LET lo == CHOOSE v \in Range(caller) : \A w \in Range(caller) : v <= w
        hi == CHOOSE v \in Range(caller) : \A w \in Range(caller) : v >= w
        b  == detector.bins
    IN  Cardinality({j \in 1..Len(caller) :
                       BinOf(caller[j], lo, hi, b) = BinOf(caller[i], lo, hi, b)})

HistogramRule ==
    /\ HasFlags
    /\ \A i \in 1..Len(caller) : FlaggedAt(i) <=> BinSize(i) < detector.bins
    /\ (caller = <<1, 1, 1, 1, 1, 100>> /\ detector.bins = 2) =>
           Flagged = <<[index |-> 5, value |-> 100]>>

\* C13: Histogram splits the value range into `bins` bins of equal width,
\* counts the records of each bin and flags a record iff its bin holds fewer
\* than `bins` records; for [1, 1, 1, 1, 1, 100] with bins = 2 the outliers
\* are exactly {100}.
C13_HistogramRule == (kind = "Histogram" /\ calls >= 1) => HistogramRule

\* the same where the module has the name pd bound
HistogramRuleWherePandasBound ==
    (kind = "Histogram" /\ calls >= 1 /\ "pd" \in globals) => HistogramRule

SpecKDE == InitKDE /\ [][Call_kde \/ NextAccessors]_vars

\* The density scores of the records, position by position.
Scores == Tup([i \in 1..Len(lib) |-> R(lib[i])])

KdeRule ==
    LET Q1    == Percentile(Scores, 1, 4)
        Q3    == Percentile(Scores, 3, 4)
        lower == RSub(Q1, RMul(Rat(11, 5), RSub(Q3, Q1)))
        upper == RAdd(Q3, RMul(Rat(11, 5), RSub(Q3, Q1)))
    IN  /\ HasFlags
        /\ \A i \in 1..Len(caller) :
              FlaggedAt(i) <=> (RLe(Scores[i], lower) \/ RGe(Scores[i], upper))
        /\ detector.q # None
        /\ detector.q[1].threshold = Rat(11, 5)
        /\ detector.q[1].iqr_lower_limit = Some(lower)
        /\ detector.q[1].iqr_upper_limit = Some(upper)
        /\ \A i \in 1..Len(caller) :
              FlaggedAt(i) <=> detector.q[1].data[i][NAME_IS_OUTLIER]

\* C14: KDE flags a record iff its density score, at the same position of the
\* score sequence, is flagged by an internal IQR detector built over all the
\* scores with IQR's default threshold 2.2; after kde() that IQR instance and
\* its lower and upper limits are available on the KDE detector.
C14_KdeRule == (kind = "KDE" /\ calls >= 1) => KdeRule

\* the same where the module has the name pd bound
KdeRuleWherePandasBound == (kind = "KDE" /\ calls >= 1 /\ "pd" \in globals) => KdeRule

SpecKNN == InitKNN /\ [][Call_knn \/ NextAccessors]_vars

\* The distances from record i to the other records, one per other record.
DistancesToOthers(i) ==
    LET others == SelectSeq([j \in 1..Len(caller) |-> j], LAMBDA j : j # i)
    IN  Tup([m \in 1..Len(others) |-> R(Abs(caller[i] - caller[others[m]]))])

\* C15: for a dataset of at least k + 1 records, KNN gives every record the
\* largest of the distances to its k + 1 nearest records, itself included at
\* distance 0, which is the distance to its k-th nearest other record, and
\* flags the record iff that score > threshold.
C15_KnnRule ==
    (kind = "KNN" /\ calls >= 1 /\ Len(caller) >= detector.k + 1) =>
        /\ HasFlags
        /\ \A i \in 1..Len(caller) :
              LET score == OrderStatistic(DistancesToOthers(i), detector.k)
              IN  /\ detector.data[i][NAME_KNN] = score
                  /\ FlaggedAt(i) <=> RGt(score, detector.threshold)

\* the middle record's score equals the threshold and it stays unflagged; the
\* outer records' second nearest other record is farther away
C15_Witness ==
    /\ kind = "KNN"
    /\ HasFlags
    /\ caller = <<0, 1, 2>>
    /\ detector.k = 2
    /\ detector.threshold = R(1)
    /\ lastop = "outliers"
    /\ result = Some(<<[index |-> 0, value |-> 0], [index |-> 2, value |-> 2]>>)

ThresholdKinds == {"Z_SCORE", "IQR", "IDR", "MAD", "KNN"}

\* The detector of the present kind over the caller's data with threshold t,
\* after its computation method.
RunWith(t) ==
    CASE kind = "Z_SCORE" -> z_score(Z_SCORE(caller, t))
      [] kind = "IQR"     -> iqr(IQR(caller, t))
      [] kind = "IDR"     -> idr(IDR(caller, t))
      [] kind = "MAD"     -> mad(MAD(caller, t))
      [] kind = "KNN"     -> knn(KNN(caller, detector.k, t)).self

\* C16: for Z-score, IQR, IDR, MAD and KNN on the same data (and the same k),
\* thresholds t1 <= t2 give flagged(t2) a subset of flagged(t1).
C16_ThresholdMonotone ==
    (kind \in ThresholdKinds /\ HasFlags) =>
        \A t1 \in Thresholds :
            RLe(t1, detector.threshold) =>
                \A i \in 1..Len(caller) :
                    FlaggedAt(i) => RunWith(t1).data[i][NAME_IS_OUTLIER]

\* a threshold that flags some records but not all, and a lower one that
\* flags one record more
C16_Witness ==
    /\ kind = "IDR"
    /\ HasFlags
    /\ \E i \in 1..Len(caller) : FlaggedAt(i)
    /\ \E t1 \in Thresholds :
          /\ RLt(t1, detector.threshold)
          /\ \E j \in 1..Len(caller) :
                ~FlaggedAt(j) /\ RunWith(t1).data[j][NAME_IS_OUTLIER]

\* The class the data arguments of the present kind must have.
ExpectedType == IF kind \in FullKinds THEN "DataFrame" ELSE "list"

\* C17: constructing a single-column detector with data that is not a list, a
\* paired detector with either argument not a list, or a full-table detector
\* with data that is not a table fails at once with a type error: there is no
\* instance, no dataset, and nothing was computed or returned.
C17_ConstructionTypeError ==
    (\E i \in DOMAIN argtypes : argtypes[i] # ExpectedType) =>
        /\ err = "TypeError"
        /\ lastop = "__init__"
        /\ detector = None
        /\ calls = 0
        /\ result = None

\* a paired detector whose second argument alone is not a list
C17_Witness ==
    /\ kind = "CategorialXCategorial"
    /\ argtypes = <<"list", "tuple">>
    /\ err = "TypeError"
    /\ lastop = "__init__"
    /\ detector = None

\* C18: the dataset of a detector is a copy of the data the caller supplied:
\* no computation method, mad_sum on a caller's table and the methods that
\* run an internal IQR or MAD instance included, changes the caller's list or
\* table or the dataset of another detector instance.
C18_DatasetIsACopy == [][caller' = caller /\ other' = other]_vars

\* mad_sum has written its flag column, and neither the caller's table nor
\* the other instance's dataset has it
C18_Witness ==
    /\ kind = "NumericalFullDataFrame"
    /\ HasFlags
    /\ lastop = "compute"
    /\ NAME_IS_OUTLIER \notin Range(caller.columns)
    /\ NAME_IS_OUTLIER \notin Range(other.columns)
    /\ caller.columns = <<"a", "b">>

\* The score column of mad_scores for the c-th column of the caller's table.
StoredScore(c) ==
    Tup([i \in 1..Len(caller.data) |-> detector.mad_scores[1].data[i][ScoreName(c - 1)]])

\* The median absolute deviation of the column x.
Deviation(x) ==
    LET med == Percentile(x, 1, 2)
    IN  Percentile(Tup([i \in 1..Len(x) |-> RAbs(RSub(x[i], med))]), 1, 2)

\* C19: in the multivariate detector every non-finite per-column MAD score is
\* replaced before normalization, NaN by 0, +infinity by 1, -infinity by 0;
\* so in a column whose median absolute deviation is 0 the rows equal to the
\* column median contribute 0 to the row aggregate and all other rows 1.
C19_NonFiniteReplaced ==
    (kind = "NumericalFullDataFrame" /\ HasFlags) =>
        \A c \in 1..Len(caller.columns) :
            LET x == GivenColumn(caller.columns[c])
            IN  /\ StoredScore(c) = Contribution(caller.columns[c])
                /\ Deviation(x) = R(0) =>
                      \A i \in 1..Len(x) :
                          StoredScore(c)[i] =
                              IF x[i] = Percentile(x, 1, 2) THEN R(0) ELSE R(1)

\* a column with deviation 0 and a row off its median: NaN, NaN, +inf
C19_Witness ==
    /\ kind = "NumericalFullDataFrame"
    /\ HasFlags
    /\ caller.columns = <<"a">>
    /\ GivenColumn("a") = <<R(0), R(0), R(4)>>
    /\ StoredScore(1) = <<R(0), R(0), R(1)>>

\* C20: after marginal_probabilities the contingency table has one entry
\* for every pair of an observed row category and an observed column
\* category; a pair no record has is there with count 0; the expectation of
\* every pair is rowSum * colSum / N, with row sums, column sums and N
\* counted over all records.
C20_ContingencyTable ==
    (kind = "CategorialXCategorial" /\ calls >= 1) =>
        LET rows  == Categories(2)
            cols  == Categories(1)
            N     == Len(caller[1])
            count == detector.data_count[1].cell
            expectation == detector.data_prob[1].cell
        IN  /\ detector.data_count # None
            /\ detector.data_prob # None
            /\ DOMAIN count = rows \X cols
            /\ DOMAIN expectation = rows \X cols
            /\ \A r \in rows, c \in cols :
                  /\ count[<<r, c>>] = PairsWith({<<c, r>>})
                  /\ expectation[<<r, c>>] =
                        Rat(PairsWith(cols \X {r}) * PairsWith({c} \X rows), N)

\* two records (X, P) and (Y, Q): the pairs (X, Q) and (Y, P) have no record
C20_Witness ==
    /\ kind = "CategorialXCategorial"
    /\ calls >= 1
    /\ caller = <<(<<"X", "Y">>), (<<"P", "Q">>)>>
    /\ detector.data_count[1].cell[<<"Q", "X">>] = 0
    /\ detector.data_prob[1].cell[<<"Q", "X">>] = Rat(1, 2)

\* The i-th record as the caller supplied it, by the names of the dataset's
\* data columns.
GivenRecord(i) ==
    IF kind = "CategorialXCategorial"
    THEN (NAME_DATA :> caller[1][i]) @@ (NAME_OTHER :> caller[2][i])
    ELSE (NAME_DATA :> caller[i])

NumberOfRecords == IF kind = "CategorialXCategorial" THEN Len(caller[1]) ELSE Len(caller)

\* C21: for both categorical detectors the joins that bring the results per
\* category back to the records leave the dataset with the same records in
\* the same order as before the computation: none dropped, duplicated or
\* moved, so cum_sum and marginal_probabilities keep the record count of
\* construction.
C21_JoinsKeepRecords ==
    (kind \in CategorialKinds /\ Constructed /\ calls >= 1) =>
        /\ Len(detector.data) = NumberOfRecords
        /\ \A i \in 1..NumberOfRecords :
              \A c \in DOMAIN GivenRecord(i) : detector.data[i][c] = GivenRecord(i)[c]

\* three records, the first and the third of the same pair of categories
C21_Witness ==
    /\ kind = "CategorialXCategorial"
    /\ HasFlags
    /\ caller = <<(<<"X", "Y", "X">>), (<<"P", "Q", "P">>)>>
    /\ Len(detector.data) = 3
    /\ detector.data[2][NAME_DATA] = "Y"

\* The labels of the records cum_sum flags when the sort ranks the categories
\* as vc.
OutcomeOf(vc) ==
    LET flags == FlagsOf(cum_sum(OneDimCategorial(caller, detector.threshold), vc).self)
    IN  {i - 1 : i \in {j \in 1..Len(flags) : flags[j]}}

TiedCounts == <<"A", "B", "C", "C", "C", "C", "C", "C", "C", "C">>

\* C22: in the cumulative-mass detector the order of two categories of equal
\* count in the ascending ranking is not fixed and decides which records are
\* flagged: for counts 1, 1, 8 and threshold 0.15 the two orders flag
\* different records; when all counts differ, data and threshold determine
\* the flagged records.
C22_TieOrderDecides ==
    (kind = "OneDimCategorial" /\ Constructed) =>
        /\ (\A c, d \in Range(caller) : c # d => Occurrences({c}) # Occurrences({d})) =>
              /\ Cardinality({OutcomeOf(vc) : vc \in Rankings(caller)}) = 1
              /\ HasFlags =>
                    \A i \in 1..Len(caller) :
                        FlaggedAt(i) <=>
                            RLt(Rat(Occurrences({d \in Range(caller) :
                                                   Occurrences({d}) <= Occurrences({caller[i]})}),
                                    Len(caller)),
                                detector.threshold)
        /\ (caller = TiedCounts /\ detector.threshold = Rat(3, 20)) =>
              /\ {OutcomeOf(vc) : vc \in Rankings(caller)} = {{0}, {1}}
              /\ HasFlags => Labels(Flagged) \in {{0}, {1}}

\* counts 1, 1, 8: the sort has ranked B before A, and B alone is flagged
C22_Witness ==
    /\ kind = "OneDimCategorial"
    /\ HasFlags
    /\ caller = TiedCounts
    /\ detector.threshold = Rat(3, 20)
    /\ lastop = "outliers"
    /\ result = Some(<<[index |-> 1, value |-> "B"]>>)

(***************************************************************************)
(* utils.py on its own: one call of one of the functions on a table.  The  *)
(* functions work on the DataFrame they are handed and return it.  caller  *)
(* holds the arguments as they were at the call, detector the DataFrame    *)
(* after it, result what the call returned.                                *)
(***************************************************************************)
UtilColumns == <<"A", "B">>
UtilRows == {r \in [Range(UtilColumns) -> 0..MaxVal] : r["B"] \in {0, MaxVal}}
UtilTables ==
    UNION {{[columns |-> UtilColumns, data |-> d] : d \in [1..n -> UtilRows]} :
             n \in 1..MaxLen}
UtilQuantiles == {Rat(1, 4), Rat(9, 10)}
UtilCalls ==
    [df : UtilTables, in_col : {"A", "B"}, in_col_y : {"B"}, out_col : {"A", "B", "C"},
     value : UtilQuantiles]

InitUtils ==
    /\ kind = "utils"
    /\ caller \in UtilCalls
    /\ argtypes = <<"DataFrame">>
    /\ dataref = "caller"
    /\ other = None
    /\ detector = caller.df
    /\ globals = {"pd"}
    /\ lib = None
    /\ calls = 0
    /\ lastop = "none"
    /\ err = "none"
    /\ result = None

\* The call of the function op leaves the DataFrame as df and returns r.
Apply(op, df, r) ==
    /\ calls = 0
    /\ calls' = 1
    /\ lastop' = op
    /\ detector' = df
    /\ result' = Some(r)
    /\ err' = "none"
    /\ UNCHANGED <<kind, caller, argtypes, dataref, other, globals, lib>>

Call_abs_diff ==
    LET df == abs_diff(detector, caller.in_col, caller.in_col_y, caller.out_col)
    IN  Apply("abs_diff", df, df)
Call_mean ==
    LET df == mean(detector, caller.in_col, caller.out_col) IN Apply("mean", df, df)
Call_median ==
    LET df == median(detector, caller.in_col, caller.out_col) IN Apply("median", df, df)
Call_std_dev ==
    LET df == std_dev(detector, caller.in_col, caller.out_col) IN Apply("std_dev", df, df)
Call_quantile ==
    Apply("quantile", detector, quantile(detector, caller.in_col, caller.value))

NextUtils == Call_abs_diff \/ Call_mean \/ Call_median \/ Call_std_dev \/ Call_quantile
SpecUtils == InitUtils /\ [][NextUtils]_vars

\* The column c of the table the function was handed, and of the table after
\* the call.
ColumnBefore(c) == Tup([i \in 1..Len(caller.df.data) |-> caller.df.data[i][c]])
ColumnAfter(c) == Tup([i \in 1..Len(detector.data) |-> detector.data[i][c]])

\* What the function called last has to write into every record of its output
\* column: position by position for abs_diff, one value for the others.
ExpectedOutput ==
    LET x == ColumnBefore(caller.in_col)
        y == ColumnBefore(caller.in_col_y)
        n == Len(x)
        S == SumOfSeq(x)
        Q == SumOfSeq([j \in 1..n |-> x[j] * x[j]])
        variance == Rat(n * Q - S * S, n * (n - 1))
    IN  CASE lastop = "abs_diff" ->
               Tup([i \in 1..n |-> IF x[i] >= y[i] THEN x[i] - y[i] ELSE y[i] - x[i]])
          [] lastop = "mean" -> Tup([i \in 1..n |-> Rat(S, n)])
          [] lastop = "median" ->
               Tup([i \in 1..n |-> Percentile(Tup([j \in 1..n |-> R(x[j])]), 1, 2)])
          [] lastop = "std_dev" -> Tup([i \in 1..n |-> Surd(Sgn(variance.n), variance)])

\* The call wrote the reference value into the output column, or returned the
\* reference quantile and left the table alone.
UtilResult ==
    IF lastop = "quantile"
    THEN /\ result = Some(Percentile(Tup([j \in 1..Len(caller.df.data) |->
                                            R(ColumnBefore(caller.in_col)[j])]),
                                     caller.value.n, caller.value.d))
         /\ detector = caller.df
    ELSE /\ ColumnAfter(caller.out_col) = ExpectedOutput
         /\ result = Some(detector)
         /\ Len(detector.data) = Len(caller.df.data)
         /\ detector.columns =
               IF caller.out_col \in Range(caller.df.columns) THEN caller.df.columns
               ELSE Append(caller.df.columns, caller.out_col)

\* Column c of the table holds, record by record, the numbers it held before
\* the call: the integers themselves, or the same numbers as the floats that
\* mean and median (rationals) and std_dev (roots) write.
SameValues(c) ==
    \A i \in 1..Len(caller.df.data) :
        LET b == caller.df.data[i][c]
            a == detector.data[i][c]
        IN  IF lastop \in {"quantile", "abs_diff"} \/ c # caller.out_col THEN a = b
            ELSE IF lastop = "std_dev" THEN a = Surd(Sgn(b), R(b * b))
            ELSE a = R(b)

\* The input columns of the call.
InputColumns ==
    IF lastop = "abs_diff" THEN {caller.in_col, caller.in_col_y} ELSE {caller.in_col}

\* C23 as amended: abs_diff writes |x - y| per record into the output
\* column; mean, median and std_dev write the column's arithmetic mean,
\* median and sample standard deviation as the same value into every record
\* of the output column; quantile returns the q-quantile of the column as a
\* scalar; none of them changes a column other than the output column, so an
\* input column changes only when it is named as the output column.
C23_UtilsAmended ==
    (kind = "utils" /\ calls = 1) =>
        /\ UtilResult
        /\ \A c \in Range(caller.df.columns) :
              (lastop = "quantile" \/ c # caller.out_col) => ColumnAfter(c) = ColumnBefore(c)

\* C23 as stated: the same values, and none of the functions changes the
\* input columns.
C23_UtilsAsStated ==
    (kind = "utils" /\ calls = 1) =>
        /\ UtilResult
        /\ \A c \in InputColumns : SameValues(c)

\* mean called with its input column as the output column: the column now
\* holds the mean, the other column is as it was
C23_Witness ==
    /\ kind = "utils"
    /\ lastop = "mean"
    /\ caller.in_col = "A"
    /\ caller.out_col = "A"
    /\ ColumnBefore("A") = <<0, 1, 2>>
    /\ ColumnAfter("A") = <<R(1), R(1), R(1)>>
    /\ ColumnAfter("B") = ColumnBefore("B")

\* Every record of the dataset is flagged.
AllFlagged == HasFlags /\ \A i \in 1..Len(caller) : FlaggedAt(i)

\* IQR with Q1 = Q3: the limits coincide and every record is flagged.
IqrSpanZero ==
    (kind = "IQR" /\ calls >= 1 /\ Percentile(Given, 1, 4) = Percentile(Given, 3, 4)) =>
        /\ AllFlagged
        /\ detector.iqr_lower_limit = detector.iqr_upper_limit
        /\ detector.iqr_lower_limit = Some(Percentile(Given, 1, 4))

\* Four of five values identical: Q1 = Q3 = 1 and iqr flags all five
\* records, the fifth included, for every threshold.
MostlyIdentical == <<1, 1, 1, 1, 5>>
IqrSpanZeroMostlyIdentical ==
    \A t \in Thresholds :
        LET q == iqr(IQR(MostlyIdentical, t))
        IN  /\ q.iqr_lower_limit = Some(R(1))
            /\ q.iqr_upper_limit = Some(R(1))
            /\ \A i \in 1..5 : q.data[i][NAME_IS_OUTLIER]

\* KDE with all density scores equal: every record is flagged.
KdeScoresEqual ==
    (kind = "KDE" /\ calls >= 1 /\ \A i, j \in 1..Len(lib) : lib[i] = lib[j]) => AllFlagged

\* C24: when Q1 = Q3 in IQR, lower = upper and iqr() flags every record of the
\* dataset, for every threshold; KDE flags every record when all density
\* scores are equal.
C24_ZeroSpanFlagsAll == IqrSpanZero /\ KdeScoresEqual

\* the KDE half where the module has the name pd bound
KdeScoresEqualWherePandasBound ==
    (kind = "KDE" /\ calls >= 1 /\ "pd" \in globals /\ \A i, j \in 1..Len(lib) : lib[i] = lib[j])
        => AllFlagged

\* After histogram(): a bin with an unflagged record holds at least `bins`
\* records, the unflagged records are none or at least `bins`, and fewer
\* records than `bins` are all flagged.
FullBinsRule ==
    /\ HasFlags
    /\ \A i \in 1..Len(caller) : ~FlaggedAt(i) => BinSize(i) >= detector.bins
    /\ LET unflagged == Cardinality({i \in 1..Len(caller) : ~FlaggedAt(i)})
       IN  unflagged = 0 \/ unflagged >= detector.bins
    /\ Len(caller) < detector.bins => \A i \in 1..Len(caller) : FlaggedAt(i)

\* C25: after histogram(), every bin that contains an unflagged record
\* contains at least `bins` records; the number of unflagged records is 0 or
\* at least `bins`, and a dataset with fewer than `bins` records has every
\* record flagged.
C25_FullBins == (kind = "Histogram" /\ calls >= 1) => FullBinsRule

\* the same where the module has the name pd bound
FullBinsWherePandasBound ==
    (kind = "Histogram" /\ calls >= 1 /\ "pd" \in globals) => FullBinsRule

\* The score table mad_sum left: every per-column score within [0, 1], every
\* row aggregate within [0, m].
ScoresWithin(m) ==
    LET scores == detector.mad_scores[1]
    IN  \A i \in 1..Len(scores.data) :
          /\ \A c \in Range(scores.columns) \ {NAME_MAD_SUM} :
                RGe(scores.data[i][c], R(0)) /\ RLe(scores.data[i][c], R(1))
          /\ RGe(scores.data[i][NAME_MAD_SUM], R(0))
          /\ RLe(scores.data[i][NAME_MAD_SUM], R(m))

\* C26: after mad_sum every normalized per-column score lies in [0, 1] and
\* every row aggregate lies between 0 and the number of data columns
\* inclusive; no row is flagged when threshold >= number of columns, as with
\* the default threshold 8.0 on a table of at most 8 columns.
C26_ScoreBounds ==
    (kind = "NumericalFullDataFrame" /\ calls >= 1) =>
        /\ ScoresWithin(Len(caller.columns))
        /\ RGe(detector.threshold, R(Len(caller.columns))) =>
              \A i \in 1..Len(caller.data) : ~FlaggedAt(i)

\* the same for the state the first invocation leaves
ScoreBoundsAfterFirstInvocation == calls = 1 => C26_ScoreBounds

\* After any number of invocations the aggregate is at most the number of
\* columns mad_sum scored, which from the second invocation on is the data
\* columns and the flag column; and a threshold that equals the number of data
\* columns flags no row, in the first invocation or in the second.
ScoreBoundsEveryInvocation ==
    (kind = "NumericalFullDataFrame" /\ calls >= 1) =>
        /\ ScoresWithin(Len(caller.columns) + (IF calls = 1 THEN 0 ELSE 1))
        /\ RGe(detector.threshold, R(Len(caller.columns))) =>
              \A i \in 1..Len(caller.data) : ~FlaggedAt(i)
        /\ LET once  == mad_sum(NumericalFullDataFrame(caller, R(Len(caller.columns))))
               twice == mad_sum(once)
           IN  \A i \in 1..Len(caller.data) :
                  ~once.data[i][NAME_IS_OUTLIER] /\ ~twice.data[i][NAME_IS_OUTLIER]

\* The categories that have a flagged record, and the number of flagged
\* records.
FlaggedCategories == {caller[i] : i \in {j \in 1..Len(caller) : FlaggedAt(j)}}
FlaggedCount == Cardinality({i \in 1..Len(caller) : FlaggedAt(i)})

\* The flagged categories are the first ones of the ranking cum_sum used:
\* whole categories, each before every unflagged one in cumulative fraction
\* and not more frequent than it.
FlaggedIsPrefix ==
    LET f(c) == detector.data[CHOOSE i \in 1..Len(caller) : caller[i] = c][NAME_CUM_SUM]
    IN  /\ \A i, j \in 1..Len(caller) : caller[i] = caller[j] => FlaggedAt(i) = FlaggedAt(j)
        /\ \A c \in FlaggedCategories : \A d \in Range(caller) \ FlaggedCategories :
              RLt(f(c), f(d)) /\ Occurrences({c}) <= Occurrences({d})

\* With a threshold of at most 1 no category that is at least as frequent as
\* every other one is flagged unless a tie puts another one last; the
\* category ranked last is never flagged, a single category never.
LastRankedUnflagged ==
    RLe(detector.threshold, R(1)) =>
        /\ \E c \in Range(caller) \ FlaggedCategories :
              \A d \in Range(caller) : Occurrences({d}) <= Occurrences({c})
        /\ Cardinality(Range(caller)) = 1 => FlaggedCount = 0

\* C27 as amended: after cum_sum the flagged categories form a prefix of the
\* ascending-count ranking and the flagged records, when there are any, make
\* up a fraction of all records strictly less than threshold; for every
\* threshold <= 1 the last-ranked category is never flagged, so a
\* single-category dataset has no outliers.
C27_FlaggedPrefixAmended ==
    (kind = "OneDimCategorial" /\ HasFlags) =>
        /\ FlaggedIsPrefix
        /\ FlaggedCount > 0 => RLt(Rat(FlaggedCount, Len(caller)), detector.threshold)
        /\ LastRankedUnflagged

\* C27 as stated: the fraction of flagged records is strictly less than
\* threshold, flagged records or none.
C27_FlaggedPrefixAsStated ==
    (kind = "OneDimCategorial" /\ HasFlags) =>
        /\ FlaggedIsPrefix
        /\ RLt(Rat(FlaggedCount, Len(caller)), detector.threshold)
        /\ LastRankedUnflagged

\* one "A" and two "B" with threshold 1/2: "A" (cumulative fraction 1/3) is
\* flagged, "B" (ranked last, fraction 1) is not
C27_Witness ==
    /\ kind = "OneDimCategorial"
    /\ HasFlags
    /\ caller = <<"A", "B", "B">>
    /\ detector.threshold = Rat(1, 2)
    /\ FlaggedCategories = {"A"}
    /\ lastop = "without_outliers"
    /\ result = Some(<<[index |-> 1, value |-> "B"], [index |-> 2, value |-> "B"]>>)

\* MAD where the median of the absolute deviations is 0: the call and the
\* accessors raise nothing, the records that differ from the median have an
\* infinite score and are flagged, the records equal to it have an undefined
\* score and are not.
MadOfZero ==
    LET med       == Percentile(Given, 1, 2)
        deviation == Tup([i \in 1..Len(Given) |-> RAbs(RSub(Given[i], med))])
    IN  (kind = "MAD" /\ calls >= 1 /\ Percentile(deviation, 1, 2) = R(0)) =>
            /\ HasFlags
            /\ err = "none"
            /\ \A i \in 1..Len(Given) :
                  /\ FlaggedAt(i) <=> Given[i] # med
                  /\ detector.data[i][NAME_MAD] = (IF Given[i] # med THEN Inf ELSE NaN)

\* Z-score where the standard deviation is 0, two or more equal values: the
\* call and the accessors raise nothing and no record is flagged.
StdDevOfZero ==
    (/\ kind = "Z_SCORE"
     /\ calls >= 1
     /\ Len(caller) >= 2
     /\ \A i, j \in 1..Len(caller) : caller[i] = caller[j]) =>
        /\ HasFlags
        /\ err = "none"
        /\ detector.data[1][NAME_STD_DEV] = Surd(0, R(0))
        /\ \A i \in 1..Len(caller) : ~FlaggedAt(i) /\ IsNaN(detector.data[i][NAME_Z_SCORE].sq)

\* C28: in the degenerate cases no error is raised; MAD with median absolute
\* deviation 0 flags exactly the records whose value differs from the median,
\* for every finite threshold; Z-score with standard deviation 0 flags no
\* record, for every threshold.
C28_DegenerateCases == MadOfZero /\ StdDevOfZero

\* [1, 1, 2] has median 1 and median absolute deviation 0: the record 2 is the
\* one outlier
C28_Witness ==
    /\ kind = "MAD"
    /\ caller = <<1, 1, 2>>
    /\ HasFlags
    /\ detector.data[3][NAME_MAD] = Inf
    /\ detector.data[1][NAME_MAD] = NaN
    /\ lastop = "outliers"
    /\ err = "none"
    /\ result = Some(<<[index |-> 2, value |-> 2]>>)

\* C29: when the dataset has fewer than k + 1 records, knn() fails with an
\* error at the neighbor query before writing any column: afterwards the
\* dataset has neither a score column nor a flag column, and outliers and
\* without_outliers still fail with the state error.
C29_KnnTooFewRecords ==
    (kind = "KNN" /\ calls >= 1 /\ Len(caller) < detector.k + 1) =>
        /\ detector = KNN(caller, detector.k, detector.threshold)
        /\ NAME_KNN \notin Range(detector.columns)
        /\ NAME_IS_OUTLIER \notin Range(detector.columns)
        /\ \A i \in 1..Len(caller) : DOMAIN detector.data[i] = {NAME_DATA}
        /\ lastop = "compute" => err = "QueryError"
        /\ lastop \in Accessors => err = "ValueError"
        /\ result = None

\* two records and k = 2: knn() was called and failed, and outliers raises
\* the state error
C29_Witness ==
    /\ kind = "KNN"
    /\ caller = <<0, 2>>
    /\ detector.k = 2
    /\ calls = 1
    /\ lastop = "outliers"
    /\ err = "ValueError"
    /\ Frame(detector) = ConstructedFrame

\* The positions of the records the accessor read last selects.
Selected ==
    {i \in 1..Len(caller[1]) : FlaggedAt(i) <=> (lastop = "outliers")}

\* C30: for a paired-column dataset outliers and without_outliers return only
\* the first column's value of each selected record, one value per record in
\* original order; the second column's value is not part of the result, so
\* two flagged records with the same first value and different second values
\* differ in the result by nothing but their position.
C30_PairedResultFirstColumn ==
    (kind = "CategorialXCategorial" /\ lastop \in Accessors /\ err = "none") =>
        LET r == result[1]
        IN  /\ Len(r) = Cardinality(Selected)
            /\ {r[j].index + 1 : j \in 1..Len(r)} = Selected
            /\ \A j \in 1..Len(r) :
                  /\ DOMAIN r[j] = {"index", "value"}
                  /\ r[j].value = caller[1][r[j].index + 1]
            /\ \A j, l \in 1..Len(r) : j < l => r[j].index < r[l].index
            /\ \A j, l \in 1..Len(r) :
                  caller[1][r[j].index + 1] = caller[1][r[l].index + 1] =>
                      r[j].value = r[l].value

\* (X, P) and (X, Q), both flagged: outliers returns X twice
C30_Witness ==
    /\ kind = "CategorialXCategorial"
    /\ caller = <<(<<"X", "X">>), (<<"P", "Q">>)>>
    /\ lastop = "outliers"
    /\ err = "none"
    /\ result = Some(<<[index |-> 0, value |-> "X"], [index |-> 1, value |-> "X"]>>)

Spec == Init /\ [][Next]_vars
====
